---- MODULE Spec2Model ----
(***************************************************************************)
(* A model of the Vilog logger runtime: the process-wide registry of       *)
(* instances, the disabled-pattern set, the silent-mode buffer with its    *)
(* cap and flush, and the singleton timer.                                 *)
(*                                                                         *)
(* The repository holds two generations of the logger class:               *)
(*   impl = "index"    src/src/index.js                                    *)
(*   impl = "part_004" src/unnamed/part_004, the class of lines 365-833    *)
(* Both are modelled; impl is fixed by Init and selects the code path.     *)
(*                                                                         *)
(* Strings that the code inspects character by character (namespaces,      *)
(* patterns) are sequences of one-character strings.  A rendered log line  *)
(* is the record of the token values it is rendered from.                  *)
(***************************************************************************)
EXTENDS Integers, Sequences, FiniteSets, Bags, TLC

VARIABLES
  impl,          \* which generation of the class is loaded
  instances,     \* Vilog.instances: namespace -> instance
  nextId,        \* identity of the next object created by `new`
  logIdx,        \* module variable logIdx
  disabled,      \* Vilog.#disabled
  buffer,        \* Vilog.#buffer
  maxBuffer,     \* Vilog.#maxBuffer
  seqBuffer,     \* Vilog.#seqBuffer
  flushOrderBy,  \* Vilog.#flushOrderBy
  clock,         \* the value now() returns
  lastTime,      \* timer.js: lastTime
  out,           \* what the last call wrote to the sink (view / _out), in order
  warned,        \* number of console.warn calls of the last call
  ret,           \* what the last call returned or threw
  op,            \* the last call and its arguments
  flushed,       \* history: number of entries that flushes have emitted
  lastMark       \* history: per namespace, time of its last timer mark

vars == <<impl, instances, nextId, logIdx, disabled, buffer, maxBuffer,
          seqBuffer, flushOrderBy, clock, lastTime, out, warned, ret, op,
          flushed, lastMark>>

----------------------------------------------------------------------------
(* Bounds of the model *)

MaxClock == 1    \* the clock stops advancing here
MaxSeq == 2      \* silent log calls that append an entry
MaxIdx == 2      \* constructions without a name

----------------------------------------------------------------------------
(* Values *)

\* what the sink and the buffer hold: a rendered line, and a buffered entry
\* a rendered line is held as the values it is rendered from: textOf gives
\* its characters
Line(name, level, msg, duration, data, fnVal, caller) ==
  [name |-> name, level |-> level, msg |-> msg, duration |-> duration,
   data |-> data, fnVal |-> fnVal, caller |-> caller]

Entry(seq, t, name, level, output) ==
  [name |-> name, level |-> level, seq |-> seq, t |-> t, output |-> output]

\* the calls
CallNew(name, options) == [name |-> name, options |-> options, call |-> "new"]
CallDisable(pattern) == [call |-> "disable", pattern |-> pattern]
CallEnable(pattern) == [call |-> "enable", pattern |-> pattern]
CallSetEnabled(name, value) ==
  [name |-> name, call |-> "setEnabled", value |-> value]
CallSetLevel(name, level) ==
  [name |-> name, level |-> level, call |-> "setLevel"]
CallFlush(orderBy, colored, toRet) ==
  [call |-> "flush", orderBy |-> orderBy, colored |-> colored, toRet |-> toRet]
CallPeek(name) == [name |-> name, call |-> "peek"]
CallFormatDate(pattern) == [call |-> "formatDate", pattern |-> pattern]
CallFormatDuration(t, trimOpt) == [call |-> "formatDuration",
                                trimOpt |-> trimOpt,
                                ms |-> t]
\* a call of a pure function that the program has yet to make
Pending(c) == [call |-> "pending", of |-> c]
CallLog(name, level, msg, data, fnVal, caller) ==
  [name |-> name,
   level |-> level,
   msg |-> msg,
   data |-> data,
   fnVal |-> fnVal,
   caller |-> caller,
   call |-> "log"]

Undefined == [kind |-> "undefined"]
TypeError == [kind |-> "throw", error |-> "TypeError"]
InstanceRef(i) == [kind |-> "instance", id |-> i]
\* a string made of rendered lines joined by newline; '' has no lines
StringOf(ls, st) == [kind |-> "string", lines |-> ls, styled |-> st]

\* option values: <<>> is an absent (undefined/null) option, <<v>> a given one
Absent == <<>>
Num(n) == <<[type |-> "number", val |-> n]>>
Infinity == <<[type |-> "Infinity"]>>
NotANumber == <<[type |-> "string"]>>

isFinite(v) == v[1].type = "number"
isInfinity(v) == v[1].type = "Infinity"

\* message arguments
MsgUndefined == [type |-> "undefined"]
MsgNull == [type |-> "null"]
MsgText(s) == [type |-> "string",
               text |-> s]
\* an Error with its stack ('' when it has none) and its message
MsgError(stack, message) ==
  [type |-> "Error", stack |-> stack, message |-> message]

\* a string, character by character
Text(s) == [kind |-> "text",
            text |-> s]

falsy(msg) ==
  \/ msg.type \in {"undefined", "null"}
  \/ msg.type = "string" /\ msg.text = <<>>

\* logging levels priority
levels == [error |-> 0, warn |-> 1, default |-> 2, info |-> 3, debug |-> 4]

DefaultMaxBuffer == 10000

----------------------------------------------------------------------------
(* Strings *)

Empty == <<>>
Star == <<"*">>

Str_ax == <<"a", ":", "x">>
Str_bx == <<"b", ":", "x">>
Str_aStar == <<"a", ":", "*">>
Str_log1 == <<"l", "o", "g", "1">>

Digits == <<"1", "2", "3", "4", "5", "6", "7", "8", "9">>
Digits0 == <<"0">> \o Digits

Range(s) == {s[i] : i \in DOMAIN s}

endsWith(s, c) == Len(s) > 0 /\ s[Len(s)] = c

startsWith(s, prefix) ==
  Len(prefix) <= Len(s) /\ SubSeq(s, 1, Len(prefix)) = prefix

\* collation rank of a character: punctuation, then digits, then letters
CharRank(c) ==
  CASE c = ":" -> 0
    [] c = "*" -> 1
    [] c = "1" -> 11
    [] c = "2" -> 12
    [] c = "3" -> 13
    [] c = "4" -> 14
    [] c = "a" -> 20
    [] c = "b" -> 21
    [] c = "g" -> 26
    [] c = "i" -> 28
    [] c = "l" -> 31
    [] c = "o" -> 34
    [] c = "v" -> 41
    [] c = "x" -> 43
    [] c = "y" -> 44
    [] OTHER -> 50

RECURSIVE localeCompare(_, _)
localeCompare(a, b) ==
  IF a = <<>> /\ b = <<>> THEN 0
  ELSE IF a = <<>> THEN -1
  ELSE IF b = <<>> THEN 1
  ELSE IF CharRank(Head(a)) < CharRank(Head(b)) THEN -1
  ELSE IF CharRank(Head(a)) > CharRank(Head(b)) THEN 1
  ELSE localeCompare(Tail(a), Tail(b))

\* String.prototype positions are 0-based; a missing character is undefined
max0(a) == IF a < 0 THEN 0 ELSE a

charAt(s, i) == IF i + 1 \in DOMAIN s THEN s[i + 1] ELSE "undefined"

\* s.slice(from, to) with indices that are not negative: an index past the
\* end stands for the end
slice(s, from, to) ==
  SubSeq(s, (IF from > Len(s) THEN Len(s) ELSE from) + 1,
         IF to > Len(s) THEN Len(s) ELSE to)

RECURSIVE indexFrom(_, _, _)
indexFrom(s, needle, i) ==
  IF i + Len(needle) > Len(s) THEN -1
  ELSE IF s[i + 1] = needle[1] /\ SubSeq(s, i + 1, i + Len(needle)) = needle
  THEN i
  ELSE indexFrom(s, needle, i + 1)

\* s.indexOf(needle, from) for a needle that is not empty
indexOf(s, needle, from) == indexFrom(s, needle, max0(from))

includes(s, needle) == indexOf(s, needle, 0) # -1

RECURSIVE concat(_)
concat(parts) ==
  IF parts = <<>> THEN <<>> ELSE Head(parts) \o concat(Tail(parts))

\* the replacement patterns $$ and $& of String.prototype.replace
RECURSIVE expand(_, _)
expand(repl, matched) ==
  IF repl = <<>> THEN <<>>
  ELSE IF Head(repl) = "$" /\ Len(repl) > 1 /\ repl[2] \in {"$", "&"}
  THEN (IF repl[2] = "$" THEN <<"$">> ELSE matched)
       \o expand(SubSeq(repl, 3, Len(repl)), matched)
  ELSE <<Head(repl)>> \o expand(Tail(repl), matched)

\* s.replace(needle, repl) with a string needle: the first occurrence only
replace(s, needle, repl) ==
  LET i == indexOf(s, needle, 0)
  IN IF i = -1 THEN s
     ELSE slice(s, 0, i) \o expand(repl, needle)
          \o slice(s, i + Len(needle), Len(s))

isSpace(c) == c \in {" ", "\t", "\n"}

\* s.replace(/\s{2,}/g, ' ')
RECURSIVE collapseSpaces(_)
collapseSpaces(s) ==
  IF s = <<>> THEN <<>>
  ELSE IF Len(s) > 1 /\ isSpace(s[1]) /\ isSpace(s[2])
  THEN LET run == CHOOSE k \in 2..Len(s) :
                    /\ \A j \in 1..k : isSpace(s[j])
                    /\ (k = Len(s) \/ ~isSpace(s[k + 1]))
       IN <<" ">> \o collapseSpaces(SubSeq(s, run + 1, Len(s)))
  ELSE <<Head(s)>> \o collapseSpaces(Tail(s))

----------------------------------------------------------------------------
(* formatDate.js *)

DefaultDateFormat ==
  <<"%", "d", "{", "Y", "Y", "Y", "Y", "-", "M", "M", "-", "D", "D", "T",
    "H", "H", ":", "m", "m", ":", "s", "s", ".", "s", "s", "s", "Z", "}">>

\* the parts of new Date('2025-12-31T09:01:05.075') in local time
DateParts ==
  [YYYY |-> <<"2", "0", "2", "5">>, YY |-> <<"2", "5">>, MM |-> <<"1", "2">>,
   DD |-> <<"3", "1">>, HH |-> <<"0", "9">>, mm |-> <<"0", "1">>,
   sss |-> <<"0", "7", "5">>, ss |-> <<"0", "5">>,
   ts |-> <<"1", "7", "6", "7", "1", "7", "1", "6", "6", "5">>]

renderDate(str, date) ==
  LET r1 == replace(str, <<"Y", "Y", "Y", "Y">>, date.YYYY)
      r2 == replace(r1, <<"Y", "Y">>, date.YY)
      r3 == replace(r2, <<"M", "M">>, date.MM)
      r4 == replace(r3, <<"D", "D">>, date.DD)
      r5 == replace(r4, <<"H", "H">>, date.HH)
      r6 == replace(r5, <<"m", "m">>, date.mm)
      r7 == replace(r6, <<"s", "s", "s">>, date.sss)
      r8 == replace(r7, <<"s", "s">>, date.ss)
  IN replace(r8, <<"t", "s">>, date.ts)

open == <<"%", "d", "{">>

\* what the loop appends for a marker with no "}" before the next marker
untouched_dropped(pattern, start, to) == <<>>

untouched(pattern, start, to) == slice(pattern, start, to)

RECURSIVE formatDateLoop(_, _, _, _, _)
formatDateLoop(pattern, date, start, pos, acc) ==
  IF start = -1 THEN acc \o slice(pattern, pos, Len(pattern))
  ELSE LET out1 == acc \o slice(pattern, pos, start)
           fmtStart == start + Len(open)
           end == indexOf(pattern, <<"}">>, fmtStart)
           nextOpen == indexOf(pattern, open, fmtStart)
       IN IF end = -1 \/ (nextOpen # -1 /\ end > nextOpen)
          THEN IF nextOpen = -1
               THEN out1 \o untouched(pattern, start, Len(pattern))
               ELSE formatDateLoop(pattern, date,
                                   indexOf(pattern, open, nextOpen), nextOpen,
                                   out1 \o untouched(pattern, start, nextOpen))
          ELSE formatDateLoop(pattern, date,
                              indexOf(pattern, open, end + 1), end + 1,
                              out1 \o renderDate(slice(pattern, fmtStart, end),
                                                 date))

formatDate(pattern, date) ==
  IF pattern = <<>> THEN <<>>
  ELSE LET start == indexOf(pattern, <<"%", "d">>, 0)
       IN IF start < 0 THEN pattern
          ELSE formatDateLoop(
                 IF charAt(pattern, start + 2) # "{"
                 THEN replace(pattern, <<"%", "d">>, DefaultDateFormat)
                 ELSE pattern,
                 date, start, 0, <<>>)

----------------------------------------------------------------------------
(* Layouts.  Texts are modelled without their styling codes. *)

Str_undefined == <<"u", "n", "d", "e", "f", "i", "n", "e", "d">>

\* String(value) of a value that is a string or undefined
String(v) == IF v.kind = "text" THEN v.text ELSE Str_undefined

\* custom tokens: a function, or a literal string
TokenFn == [type |-> "function"]
Literal(s) == [type |-> "string",
               text |-> s]

\* tokens[name] of a token source given as the sequence of its
\* <<name, value>> properties, a later property overriding an earlier one
lookup(tokens, name) ==
  LET at == {i \in DOMAIN tokens : tokens[i][1] = name}
  IN IF at = {} THEN Undefined
     ELSE tokens[CHOOSE i \in at : \A j \in at : j <= i][2]

isFn(spec) == spec # Undefined /\ spec.type = "function"

\* the levels of index.js, lines 88-127
LevelsIndex ==
  [error |-> [label |-> <<"E", "R", "R", "O", "R">>, layout |-> <<"[",
      "%", "d", "]", " ", "[", "{", "l", "a", "b", "e", "l", "}", "]",
          " ", "{", "m", "s", "g", "}">>],
   warn |-> [label |-> <<"W", "A", "R", "N">>, layout |-> <<"[", "%", "d",
       "]", " ", "[", "{", "l", "a", "b", "e", "l", "}", "]", " ", "{",
           "m", "s", "g", "}">>],
   default |-> [label |-> <<>>, layout |-> <<"[", "%", "d", "]", " ", "{",
       "n", "a", "m", "e", "}", " ", "{", "m", "s", "g", "}">>],
   info |-> [label |-> <<"I", "N", "F", "O">>, layout |-> <<"[", "%", "d",
       "]", " ", "[", "{", "l", "a", "b", "e", "l", "}", "]", " ", "{",
           "m", "s", "g", "}">>],
   debug |-> [label |-> <<"D", "E", "B", "U", "G">>,
              layout |-> <<"[", "{", "l", "a", "b", "e", "l", "}", "]",
                  " ", "{", "n", "a", "m", "e", "}", " ", "{", "m", "s",
                      "g", "}", " ", "+", "{", "d", "u", "r", "a", "t",
                          "i", "o", "n", "}", " ", "(", "{", "e", "l",
                              "a", "p", "s", "e", "d", "}", ")">>]]

\* the levels of part_004, lines 434-478
LevelsPart004 ==
  [error |-> [label |-> <<"E", "R", "R", "O", "R">>, layout |-> <<"%",
      "d", " ", "{", "l", "a", "b", "e", "l", "}", " ", "{", "m", "s",
          "g", "}">>],
   warn |-> [label |-> <<"W", "A", "R", "N">>, layout |-> <<"%", "d", " ",
       "{", "l", "a", "b", "e", "l", "}", " ", "{", "m", "s", "g", "}">>],
   default |-> [label |-> <<>>, layout |-> <<"%", "d", " ", "{", "m", "s",
       "g", "}">>],
   info |-> [label |-> <<"I", "N", "F", "O">>, layout |-> <<"%", "d", " ",
       "{", "l", "a", "b", "e", "l", "}", " ", "{", "m", "s", "g", "}">>],
   debug |-> [label |-> <<"D", "E", "B", "U", "G">>,
              layout |-> <<"{", "n", "a", "m", "e", "}", " ", "{", "m",
                  "s", "g", "}", " ", "+", "{", "d", "u", "r", "a", "t",
                      "i", "o", "n", "}", " ", "(", "{", "e", "l", "a",
                          "p", "s", "e", "d", "}", ")">>]]

\* mergeDeep(this._levels, options.levels): a level of the options is a
\* function from some of "label", "layout" to their texts
mergeLevels(target, source) ==
  [l \in DOMAIN target \cup DOMAIN source |->
     IF l \notin DOMAIN source THEN target[l]
     ELSE IF l \notin DOMAIN target THEN source[l]
     ELSE source[l] @@ target[l]]

\* if (!('label' in opts)) opts.label = ''
labelOf(opts) == IF "label" \in DOMAIN opts THEN opts.label ELSE <<>>

----------------------------------------------------------------------------
(* parse.js *)

\* TextEncoder.encode: a character outside ASCII takes two bytes
bytesOf(c) == IF c = "é" THEN <<"0xC3", "0xA9">> ELSE <<c>>

encode(layout) == concat([i \in DOMAIN layout |-> bytesOf(layout[i])])

\* `${layout[i]}` of a template literal
charText(s, i) == IF i + 1 \in DOMAIN s THEN <<s[i + 1]>> ELSE Str_undefined

RECURSIVE trimStart(_)
trimStart(s) ==
  IF s # <<>> /\ isSpace(Head(s)) THEN trimStart(Tail(s)) ELSE s

RECURSIVE trimEnd(_)
trimEnd(s) ==
  IF s # <<>> /\ isSpace(s[Len(s)]) THEN trimEnd(SubSeq(s, 1, Len(s) - 1))
  ELSE s

trim(s) == trimEnd(trimStart(s))

\* for (let li = start; codes[li++] === 32;) padLeft += ' '
RECURSIVE padFrom(_, _, _)
padFrom(codes, i, step) ==
  IF charAt(codes, i) = " " THEN <<" ">> \o padFrom(codes, i + step, step)
  ELSE <<>>

Item(type, token, name, start, end, padLeft, padRight) ==
  [name |-> name, type |-> type, start |-> start, end |-> end,
   token |-> token, padLeft |-> padLeft, padRight |-> padRight]

RECURSIVE parseFrom(_, _, _, _)
parseFrom(layout, codes, i, acc) ==
  LET n == Len(codes)
      c == charAt(codes, i)
  IN
  IF i >= n THEN acc
  ELSE IF c = "%" /\ i + 1 < n
  THEN LET spec == charText(layout, i + 1)
           type == IF spec = <<"d">> THEN "date" ELSE "any"
       IN IF i + 2 < n /\ charAt(codes, i + 2) = "{"
          THEN LET start == i + 3
                   j == indexOf(codes, <<"}">>, start)
                   name == slice(layout, start, j)
               IN IF j >= n \/ j < 0 THEN acc
                  ELSE parseFrom(layout, codes, j + 1,
                         IF j > start
                         THEN Append(acc,
                                Item(type,
                                     <<"%">> \o spec \o <<"{">> \o name \o <<"}">>,
                                     name, i, j + 1, <<>>, <<>>))
                         ELSE acc)
          ELSE parseFrom(layout, codes, i + 2,
                 Append(acc, Item(type, <<"%">> \o spec, <<"%">> \o spec,
                                  i, i + 2, <<>>, <<>>)))
  ELSE IF c = "{"
  THEN LET start == i + 1
           j == indexOf(codes, <<"}">>, start)
           raw == slice(layout, start, j)
           name == trim(raw)
       IN IF j >= n \/ j < 0 THEN acc
          ELSE parseFrom(layout, codes, j + 1,
                 IF j > start
                 THEN Append(acc,
                        Item("any", <<"{">> \o raw \o <<"}">>, name, i, j + 1,
                             IF name # <<>> THEN padFrom(codes, start, 1)
                             ELSE <<>>,
                             IF name # <<>> THEN padFrom(codes, j - 1, -1)
                             ELSE <<>>))
                 ELSE acc)
  ELSE parseFrom(layout, codes, i + 1, acc)

parse(layout) == parseFrom(layout, encode(layout), 0, <<>>)

----------------------------------------------------------------------------
(* compiling the layouts of an instance *)

Str_name == <<"n", "a", "m", "e">>
Str_level == <<"l", "e", "v", "e", "l">>
Str_label == <<"l", "a", "b", "e", "l">>
Str_msg == <<"m", "s", "g">>
Str_duration == <<"d", "u", "r", "a", "t", "i", "o", "n">>
Str_elapsed == <<"e", "l", "a", "p", "s", "e", "d">>
Str_file == <<"f", "i", "l", "e">>
Str_line == <<"l", "i", "n", "e">>
Str_column == <<"c", "o", "l", "u", "m", "n">>
Str_date == <<"d", "a", "t", "e">>
Str_data == <<"d", "a", "t", "a">>
Str_pd == <<"%", "d">>

\* what a level holds after the constructor: its label, the pre-rendered
\* layout and the dynamic tokens (index.js) or the chunks (part_004), and
\* whether a log call captures the caller
Compiled(label, layout, chunks, dynamicTokens, useTrace) ==
  [label |-> label, layout |-> layout, chunks |-> chunks,
   dynamicTokens |-> dynamicTokens, useTrace |-> useTrace]

BASE_DYNAMIC_TOKENS ==
  <<Str_duration, Str_elapsed, Str_file, Str_line, Str_column>>

wrapToken(t) == <<"{">> \o t \o <<"}">>

\* the names of a token source, each once, in the order of first definition
RECURSIVE keys(_)
keys(tokens) ==
  IF tokens = <<>> THEN <<>>
  ELSE LET rest == keys(SubSeq(tokens, 1, Len(tokens) - 1))
           name == tokens[Len(tokens)][1]
       IN IF \E i \in DOMAIN rest : rest[i] = name THEN rest
          ELSE Append(rest, name)

\* index.js, lines 181-185
tokenList(tokens) ==
  LET base == <<Str_label, Str_name, Str_pd, Str_msg>> \o BASE_DYNAMIC_TOKENS
  IN base \o SelectSeq(keys(tokens), LAMBDA t : t \notin Range(base))

needleOf(token) ==
  IF startsWith(token, <<"%">>) THEN token ELSE wrapToken(token)

\* index.js, lines 366-400: the tokens of the list, one after another
RECURSIVE registerTokens(_, _, _, _)
registerTokens(list, k, tokens, opts) ==
  IF k > Len(list) THEN opts
  ELSE LET token == list[k]
           needle == needleOf(token)
           tokenValue == lookup(tokens, token)
           isTokenFn == isFn(tokenValue)
           replacement == IF ~isTokenFn /\ tokenValue # Undefined
                             /\ tokenValue.text # <<>>
                          THEN tokenValue.text ELSE needle
       IN IF ~includes(opts.layout, needle)
          THEN registerTokens(list, k + 1, tokens, opts)
          ELSE registerTokens(list, k + 1, tokens,
                 Compiled(opts.label,
                          IF token = Str_pd THEN opts.layout
                          ELSE replace(opts.layout, needle, replacement),
                          <<>>,
                          IF isTokenFn THEN Append(opts.dynamicTokens, token)
                          ELSE opts.dynamicTokens,
                          opts.useTrace \/ includes(<<"f", "i", "l", "e",
                              ":", "l", "i", "n", "e", ":", "c", "o", "l",
                                  "u", "m", "n">>, token)))

\* index.js, lines 353-404: one level of _registerLevels
registerLevel(opts, tokens, optName) ==
  LET done == registerTokens(tokenList(tokens), 1, tokens,
                Compiled(labelOf(opts), opts.layout, <<>>,
                         BASE_DYNAMIC_TOKENS, FALSE))
      labelled == replace(done.layout, wrapToken(Str_label), done.label)
  IN Compiled(done.label, replace(labelled, wrapToken(Str_name), optName), <<>>,
              done.dynamicTokens, done.useTrace)

\* the chunks of part_004: a text, a date pattern to format at each call,
\* or a token to resolve at each call
ChunkDate(pattern) == [pattern |-> pattern, kind |-> "date"]
ChunkToken(name, token) == [name |-> name, kind |-> "token", token |-> token]

\* part_004, lines 656-696: the chunks pushed for one parsed token
chunksOf(layout, item, tokens, pos) ==
  LET spec == lookup(tokens, item.name)
      useFn == isFn(spec)
      chunk == IF item.type = "date" THEN ChunkDate(item.token)
               ELSE IF spec = Undefined THEN ChunkToken(item.name, item.token)
               ELSE IF ~useFn /\ startsWith(spec.text, Str_pd)
               THEN ChunkDate(spec.text)
               ELSE IF useFn THEN ChunkToken(item.name, item.token)
               ELSE Text(spec.text)
  IN (IF pos < item.start THEN <<Text(slice(layout, pos, item.start))>>
      ELSE <<>>)
     \o (IF spec # Literal(<<>>)
         THEN <<Text(item.padLeft), chunk, Text(item.padRight)>>
         ELSE <<>>)

RECURSIVE initChunks(_, _, _, _, _, _)
initChunks(layout, parts, tokens, k, pos, chunks) ==
  IF k > Len(parts)
  THEN IF pos < Len(layout)
       THEN Append(chunks, Text(slice(layout, pos, Len(layout))))
       ELSE chunks
  ELSE initChunks(layout, parts, tokens, k + 1, parts[k].end,
                  chunks \o chunksOf(layout, parts[k], tokens, pos))

\* part_004, lines 639-704: one level of _init
initLevel(opts, tokens) ==
  LET layout == IF "layout" \in DOMAIN opts THEN opts.layout ELSE <<>>
      parts == parse(layout)
  IN Compiled(labelOf(opts), layout,
              initChunks(layout, parts, tokens, 1, 0, <<>>), <<>>,
              \E k \in DOMAIN parts : parts[k].name \in {Str_file, Str_line})

\* this._tokens after the constructor has merged options.tokens
tokenSource(o) ==
  IF impl = "index" THEN o.tokens
  ELSE <<<<Str_name, Literal(o.name)>>>> \o o.tokens

\* this._levels after mergeDeep
mergedLevels(o) ==
  mergeLevels(IF impl = "index" THEN LevelsIndex ELSE LevelsPart004, o.levels)

\* this._levels[l] after _registerLevels / _init
compileLevel(o, l) ==
  IF impl = "index"
  THEN registerLevel(mergedLevels(o)[l], tokenSource(o), o.name)
  ELSE initLevel(mergedLevels(o)[l], tokenSource(o))

\* the names of this._tokensFn / this._tokenFns: the function tokens that
\* some layout uses, and in part_004 a function token '%d'
tokenFns(o) ==
  IF impl = "index"
  THEN SelectSeq(keys(o.tokens),
         LAMBDA t :
           /\ isFn(lookup(o.tokens, t))
           /\ \E l \in DOMAIN mergedLevels(o) :
                \E i \in DOMAIN compileLevel(o, l).dynamicTokens :
                  compileLevel(o, l).dynamicTokens[i] = t)
  ELSE SelectSeq(keys(tokenSource(o)),
         LAMBDA t :
           /\ isFn(lookup(tokenSource(o), t))
           /\ \/ t = Str_pd
              \/ \E l \in DOMAIN mergedLevels(o) :
                   \E i \in DOMAIN compileLevel(o, l).chunks :
                     /\ compileLevel(o, l).chunks[i].kind = "token"
                     /\ compileLevel(o, l).chunks[i].name = t)

----------------------------------------------------------------------------
(* helpers.js *)

matchPattern(pattern, str) ==
  IF pattern = Star THEN TRUE
  ELSE IF endsWith(pattern, "*")
          /\ startsWith(str, SubSeq(pattern, 1, Len(pattern) - 1)) THEN TRUE
  ELSE pattern = str

----------------------------------------------------------------------------
(* Static methods of Vilog, as functions of the state they read *)

\* Vilog.disable(pattern): the new content of the disabled set
disable(d, pattern) ==
  IF pattern = Empty THEN {Star} ELSE d \cup {pattern}

\* mutant: every enable clears all rules
enable_clearsAll(d, pattern) == {}

\* Vilog.enable(pattern): the new content of the disabled set
enable(d, pattern) ==
  IF pattern = Empty \/ pattern = Star THEN {} ELSE d \ {pattern}

isDisabledIndex(d, name) == Star \in d

isDisabledPart004(d, name) ==
  \/ Star \in d
  \/ \E pattern \in d : matchPattern(pattern, name)

isDisabled(d, name) ==
  IF impl = "index" THEN isDisabledIndex(d, name)
  ELSE isDisabledPart004(d, name)

\* get enabled ()
enabled(name) == ~isDisabled(disabled, name)

\* comparator of flush for orderBy 'name'
cmpName(a, b) ==
  LET c == localeCompare(a.name, b.name)
  IN IF c # 0 THEN c
     ELSE IF a.t - b.t # 0 THEN a.t - b.t
     ELSE a.seq - b.seq

\* mutant: the 'time' comparator looks at the sequence number only
cmpTime_seqOnly(a, b) == a.seq - b.seq

\* comparator of flush for orderBy 'time'
cmpTime(a, b) ==
  IF a.t - b.t # 0 THEN a.t - b.t
  ELSE IF a.seq - b.seq # 0 THEN a.seq - b.seq
  ELSE localeCompare(a.name, b.name)

\* mutant: every order is the one of 'name'
cmp_byName(orderBy, a, b) == cmpName(a, b)

\* the comparator flush sorts with
cmp(orderBy, a, b) ==
  IF orderBy = "name" THEN cmpName(a, b) ELSE cmpTime(a, b)

\* insert e into the sorted list s, after the elements that do not
\* compare greater (Array.prototype.sort is stable)
RECURSIVE insertSorted(_, _, _)
insertSorted(orderBy, s, e) ==
  IF s = <<>> THEN <<e>>
  ELSE IF cmp(orderBy, Head(s), e) <= 0
       THEN <<Head(s)>> \o insertSorted(orderBy, Tail(s), e)
       ELSE <<e>> \o s

RECURSIVE sort(_, _)
sort(orderBy, list) ==
  IF list = <<>> THEN <<>>
  ELSE insertSorted(orderBy, sort(orderBy, SubSeq(list, 1, Len(list) - 1)),
                    list[Len(list)])

\* mutant: flush leaves out the last entry of the list
flushList_dropsLast(orderBy, list) ==
  IF orderBy \in {"name", "time"}
  THEN SubSeq(sort(orderBy, list), 1, Len(list) - 1)
  ELSE SubSeq(list, 1, Len(list) - 1)

\* the list flush emits: sorted in place for 'name' and 'time'
flushList(orderBy, list) ==
  IF orderBy \in {"name", "time"} THEN sort(orderBy, list) ELSE list

outputs(list) == [i \in 1..Len(list) |-> list[i].output]

----------------------------------------------------------------------------
\* the state after import, with the call the program is about to make
InitWith(call) ==
  /\ impl \in {"index", "part_004"}
  /\ instances = [n \in {} |-> 0]
  /\ nextId = 1
  /\ logIdx = 1
  /\ disabled = {}
  /\ buffer = <<>>
  /\ maxBuffer = Num(DefaultMaxBuffer)
  /\ seqBuffer = 0
  /\ flushOrderBy = "time"
  /\ clock = 0
  /\ lastTime = 0
  /\ out = <<>>
  /\ warned = 0
  /\ ret = Undefined
  /\ op = call
  /\ flushed = 0
  /\ lastMark = [n \in {} |-> 0]

Init == InitWith([call |-> "import"])

----------------------------------------------------------------------------
(* constructor (options) *)

autoPrefix == IF impl = "index" THEN <<"l", "o", "g">> ELSE <<"v", "i", "l", "o", "g">>

\* the namespace of a construction: options.name, or the prefix + logIdx++
loggerName(o) ==
  IF o.name # Empty THEN o.name ELSE autoPrefix \o <<Digits[logIdx]>>

\* line 190 / line 520: options.enabled === false without a matching
\* environment pattern disables the namespace
disabledByOptions(o, name) ==
  IF o.enabled = "false" /\ ~matchPattern(o.env, name)
  THEN disable(disabled, name) ELSE disabled

\* lines 193-198 of index.js throw for this maxBuffer option
maxBufferThrows(o) ==
  /\ impl = "index"
  /\ o.maxBuffer # Absent
  /\ ~isFinite(o.maxBuffer) /\ ~isInfinity(o.maxBuffer)

\* mutant: the lookup never finds the registered instance
existing_lookupMisses(name) == FALSE

\* Vilog.instances.get(loggerName) is truthy
existing(name) == name \in DOMAIN instances

\* mutant: the constructor does not call timer.updateTimer()
constructedTime_noUpdate(before, now) == before

\* timer.updateTimer() at the end of the constructor
constructedTime(before, now) == now

\* the hidden instance.  The constructor compiles the layouts once, from
\* options that nothing changes afterwards: the instance keeps the options,
\* and levelOf and tokenFnsOf give what the constructor has compiled
newInstance(o) ==
  [level |-> 4,
   id |-> nextId,
   levels |-> o.levels,
   tokens |-> o.tokens,
   optName |-> o.name,
   silent |-> o.silent,
   format |-> o.format]

compiledFrom(n) ==
  [name |-> instances[n].optName, levels |-> instances[n].levels,
   tokens |-> instances[n].tokens]

\* the level methods of the instance
methods(n) == DOMAIN mergedLevels(compiledFrom(n))

levelOf(n, l) == compileLevel(compiledFrom(n), l)

tokenFnsOf(n) == tokenFns(compiledFrom(n))

Construct(o) ==
  LET name == loggerName(o) IN
  /\ o.name = Empty => logIdx <= MaxIdx
  /\ logIdx' = IF o.name = Empty THEN logIdx + 1 ELSE logIdx
  /\ op' = CallNew(name, o)
  /\ out' = <<>>
  /\ IF existing(name)
     THEN \* duplicate: warn and return the existing instance
          /\ warned' = 1
          /\ ret' = InstanceRef(instances[name].id)
          /\ UNCHANGED <<impl, instances, nextId, disabled, buffer, maxBuffer,
                         seqBuffer, flushOrderBy, clock, lastTime,
                         flushed, lastMark>>
     ELSE IF maxBufferThrows(o)
     THEN /\ disabled' = disabledByOptions(o, name)
          /\ ret' = TypeError
          /\ warned' = 0
          /\ UNCHANGED <<impl, instances, nextId, buffer, maxBuffer,
                         seqBuffer, flushOrderBy, clock, lastTime,
                         flushed, lastMark>>
     ELSE /\ disabled' = disabledByOptions(o, name)
          /\ maxBuffer' = IF impl = "index" /\ o.maxBuffer # Absent
                          THEN o.maxBuffer ELSE maxBuffer
          /\ flushOrderBy' = IF impl = "index" /\ o.flushOrderBy # Absent
                             THEN o.flushOrderBy[1] ELSE flushOrderBy
          /\ instances' = [n \in DOMAIN instances \cup {name} |->
                             IF n = name THEN newInstance(o) ELSE instances[n]]
          /\ nextId' = nextId + 1
          /\ lastTime' = constructedTime(lastTime, clock)
          /\ lastMark' = [n \in DOMAIN instances \cup {name} |->
                             IF n = name THEN clock ELSE lastMark[n]]
          /\ ret' = InstanceRef(nextId)
          /\ warned' = 0
          /\ UNCHANGED <<impl, buffer, seqBuffer, clock, flushed>>

----------------------------------------------------------------------------
(* rendering a log line *)

\* '' + n of a natural number
RECURSIVE decimal(_)
decimal(n) ==
  IF n < 10 THEN <<Digits0[n + 1]>>
  ELSE decimal(n \div 10) \o <<Digits0[(n % 10) + 1]>>

\* formatDuration(ms) of a whole number of milliseconds below a second,
\* formatDuration.js lines 78-97: the unit is ns below 0.001 ms
durationFmt(ms) ==
  CASE ms < 0 -> <<"-">> \o decimal((0 - ms) * 1000000) \o <<"n", "s">>
    [] ms = 0 -> <<"0", "n", "s">>
    [] ms > 0 /\ ms < 1000 -> decimal(ms) \o <<"m", "s">>

\* the text of a level name
LevelText ==
  [error |-> <<"e", "r", "r", "o", "r">>, warn |-> <<"w", "a", "r",
      "n">>, default |-> <<"d", "e", "f", "a", "u", "l", "t">>,
   info |-> <<"i", "n", "f", "o">>, debug |-> <<"d", "e", "b", "u",
       "g">>, trace |-> <<"t", "r", "a", "c", "e">>]

\* String(data): the arguments joined by ","
RECURSIVE join(_, _)
join(texts, sep) ==
  IF texts = <<>> THEN <<>>
  ELSE IF Len(texts) = 1 THEN texts[1]
  ELSE texts[1] \o sep \o join(Tail(texts), sep)

\* what getCaller(2) has found
CallerFile == <<"a", "p", "p", ".", "j", "s">>
CallerLine == <<"7">>
CallerColumn == <<"3">>

\* the values a log call renders: the built-in ones, then the results of
\* the function tokens, which override them
values(n, line, elapsed) ==
  LET opts == levelOf(n, line.level)
      traced(v) == IF opts.useTrace /\ line.caller = "found" THEN Text(v)
                   ELSE Undefined
      resolved == tokenFnsOf(n)
  IN << <<Str_name, Text(line.name)>>,
        <<Str_level, Text(LevelText[line.level])>>,
        <<Str_label, Text(opts.label)>>,
        <<Str_data, Text(join(line.data, <<",">>))>>,
        <<Str_msg, Text(line.msg)>>,
        <<Str_duration, Text(durationFmt(line.duration))>>,
        <<Str_elapsed, Text(durationFmt(elapsed))>>,
        <<Str_file, traced(CallerFile)>>,
        <<Str_line, traced(CallerLine)>>,
        <<Str_column, traced(CallerColumn)>> >>
     \o [i \in DOMAIN resolved |->
           <<IF impl = "part_004" /\ resolved[i] = Str_pd THEN Str_date
             ELSE resolved[i],
             line.fnVal>>]

\* index.js, lines 535-538: inject dynamic tokens
RECURSIVE inject(_, _, _, _)
inject(text, renderTokens, k, vals) ==
  IF k > Len(renderTokens) THEN text
  ELSE inject(replace(text, wrapToken(renderTokens[k]),
                      String(lookup(vals, renderTokens[k]))),
              renderTokens, k + 1, vals)

\* index.js, lines 534-552: _render
renderIndex(layout, vals, renderTokens) ==
  LET injected == inject(layout, renderTokens, 1, vals)
      dated == IF includes(injected, Str_pd)
               THEN formatDate(injected, DateParts) ELSE injected
      spaced == IF includes(dated, <<" ", " ">>) THEN collapseSpaces(dated)
                ELSE dated
  IN replace(spaced, wrapToken(Str_msg), String(lookup(vals, Str_msg)))

\* part_004, lines 771-786: render layout with tokens
RECURSIVE renderChunks(_, _, _, _)
renderChunks(chunks, k, vals, output) ==
  IF k > Len(chunks) THEN output
  ELSE IF chunks[k].kind = "text"
  THEN renderChunks(chunks, k + 1, vals, output \o chunks[k].text)
  ELSE IF chunks[k].kind = "date"
  THEN renderChunks(chunks, k + 1, vals,
                    output \o formatDate(chunks[k].pattern, DateParts))
  ELSE LET value == lookup(vals, chunks[k].name)
           spaced == IF chunks[k].name = Str_msg
                        /\ includes(output, <<" ", " ">>)
                     THEN collapseSpaces(output) ELSE output
       IN renderChunks(chunks, k + 1, vals,
                       spaced \o (IF value = Undefined THEN chunks[k].token
                                  ELSE value.text))

\* the characters of a line rendered by the instance of namespace n, at
\* `elapsed` milliseconds since the start
textOf(n, line, elapsed) ==
  LET vals == values(n, line, elapsed)
      opts == levelOf(n, line.level)
  IN IF impl = "index" THEN renderIndex(opts.layout, vals, opts.dynamicTokens)
     ELSE renderChunks(opts.chunks, 1, vals, <<>>)

----------------------------------------------------------------------------
(* formatString (tmpl, ...args), index.js lines 573-590, on string values *)

\* String(Number(value)) of a string of digits, of '' and of other strings
numberText(v) ==
  IF v = Undefined THEN <<"N", "a", "N">>
  ELSE IF v.text = <<>> THEN <<"0">>
  ELSE IF \A i \in DOMAIN v.text : v.text[i] \in Range(Digits0) THEN v.text
  ELSE <<"N", "a", "N">>

\* JSON.stringify(value) of a string without characters to escape
jsonText(v) ==
  IF v = Undefined THEN Str_undefined ELSE <<"\"">> \o v.text \o <<"\"">>

\* args[i]: undefined past the end
argAt(args, i) == IF i + 1 \in DOMAIN args THEN Text(args[i + 1]) ELSE Undefined

\* the replacement of the fields, left to right; i counts the used arguments
RECURSIVE fields(_, _, _)
fields(tmpl, args, i) ==
  IF tmpl = <<>> THEN [text |-> <<>>, used |-> i]
  ELSE IF Len(tmpl) > 1 /\ tmpl[1] = "%" /\ tmpl[2] \in {"s", "d", "j", "%"}
  THEN LET rest == fields(SubSeq(tmpl, 3, Len(tmpl)), args,
                          IF tmpl[2] = "%" THEN i ELSE i + 1)
           field == CASE tmpl[2] = "%" -> <<"%">>
                      [] tmpl[2] = "s" -> String(argAt(args, i))
                      [] tmpl[2] = "d" -> numberText(argAt(args, i))
                      [] tmpl[2] = "j" -> jsonText(argAt(args, i))
       IN [text |-> field \o rest.text, used |-> rest.used]
  ELSE LET rest == fields(Tail(tmpl), args, i)
       IN [text |-> <<tmpl[1]>> \o rest.text, used |-> rest.used]

formatString(tmpl, args) ==
  LET done == fields(tmpl, args, 0)
  IN done.text
     \o (IF done.used < Len(args)
         THEN <<" ">> \o join(SubSeq(args, done.used + 1, Len(args)), <<" ">>)
         ELSE <<>>)

\* (value) => value.toUpperCase(), the formatter of test/format.test.js
toUpperCase(s) ==
  [i \in DOMAIN s |->
     CASE s[i] = "m" -> "M"
       [] s[i] = "x" -> "X"
       [] s[i] = "e" -> "E"
       [] OTHER -> s[i]]

\* this._format(msg, ...data)
format(n, msg, data) ==
  IF instances[n].format = "upper" THEN toUpperCase(msg)
  ELSE formatString(msg, data)

----------------------------------------------------------------------------
(* static disable / enable, the enabled setter, the level setter *)

Disable(pattern) ==
  /\ disabled' = disable(disabled, pattern)
  /\ op' = CallDisable(pattern)
  /\ ret' = Undefined
  /\ out' = <<>>
  /\ warned' = 0
  /\ UNCHANGED <<impl, instances, nextId, logIdx, buffer, maxBuffer, seqBuffer,
                 flushOrderBy, clock, lastTime, flushed, lastMark>>

Enable(pattern) ==
  /\ disabled' = enable(disabled, pattern)
  /\ op' = CallEnable(pattern)
  /\ ret' = Undefined
  /\ out' = <<>>
  /\ warned' = 0
  /\ UNCHANGED <<impl, instances, nextId, logIdx, buffer, maxBuffer, seqBuffer,
                 flushOrderBy, clock, lastTime, flushed, lastMark>>

\* set enabled (value) on the instance of namespace n
SetEnabled(n, value) ==
  /\ n \in DOMAIN instances
  /\ disabled' = IF value THEN enable(disabled, n) ELSE disable(disabled, n)
  /\ op' = CallSetEnabled(n, value)
  /\ ret' = Undefined
  /\ out' = <<>>
  /\ warned' = 0
  /\ UNCHANGED <<impl, instances, nextId, logIdx, buffer, maxBuffer, seqBuffer,
                 flushOrderBy, clock, lastTime, flushed, lastMark>>

max(a, b) == IF a >= b THEN a ELSE b

\* set level (level) on the instance of namespace n (part_004 only)
SetLevel(n, level) ==
  /\ impl = "part_004"
  /\ n \in DOMAIN instances
  /\ instances' = [instances EXCEPT ![n].level = max(-1, level)]
  /\ op' = CallSetLevel(n, level)
  /\ ret' = Undefined
  /\ out' = <<>>
  /\ warned' = 0
  /\ UNCHANGED <<impl, nextId, logIdx, disabled, buffer, maxBuffer, seqBuffer,
                 flushOrderBy, clock, lastTime, flushed, lastMark>>

----------------------------------------------------------------------------
(* static flush and peek *)

\* flush({ orderBy, colored, ret }): colored and toRet are "true", "false"
\* or "undefined"
Flush(orderBy, colored, toRet) ==
  LET list == flushList(orderBy, buffer)
      result == outputs(list)
  IN
  /\ op' = CallFlush(orderBy, colored, toRet)
  /\ warned' = 0
  /\ IF buffer = <<>>
     THEN /\ ret' = StringOf(<<>>, TRUE)
          /\ out' = <<>>
          /\ UNCHANGED <<buffer, flushed>>
     ELSE /\ buffer' = <<>>
          /\ out' = IF toRet # "true" THEN <<result>> ELSE <<>>
          /\ ret' = StringOf(result, colored = "true")
          /\ flushed' = flushed + Len(result)
  /\ UNCHANGED <<impl, instances, nextId, logIdx, disabled, maxBuffer,
                 seqBuffer, flushOrderBy, clock, lastTime, lastMark>>

\* mutant: every buffered entry is selected
selectByName_all(list, name) == list

selectByName(list, name) == SelectSeq(list, LAMBDA item : item.name = name)

\* peek(name) (index.js only)
Peek(name) ==
  /\ impl = "index"
  /\ op' = CallPeek(name)
  /\ ret' = IF name = Empty THEN TypeError
            ELSE StringOf(outputs(selectByName(buffer, name)), TRUE)
  /\ out' = <<>>
  /\ warned' = 0
  /\ UNCHANGED <<impl, instances, nextId, logIdx, disabled, buffer, maxBuffer,
                 seqBuffer, flushOrderBy, clock, lastTime, flushed, lastMark>>

----------------------------------------------------------------------------
(* _log (level, msg, ...data) on the instance of namespace n *)

\* levels[level] > this._level: levels[level] is undefined for a custom
\* level, and undefined > x is false
aboveLevel(level, threshold) ==
  level \in DOMAIN levels /\ levels[level] > threshold

\* mutant: the message text, whether or not the Error has a stack
errorText_message(msg) == msg.message

\* msg.stack || msg.message
errorText(msg) == IF msg.stack # <<>> THEN msg.stack ELSE msg.message

\* the call is suppressed: the level is above the instance's level
\* (part_004) or the namespace is disabled
suppressed(n, level) ==
  \/ impl = "part_004" /\ aboveLevel(level, instances[n].level)
  \/ isDisabled(disabled, n)

\* the level an emitted call is rendered with: an Error forces 'error'
renderLevel(level, msg) == IF msg.type = "Error" THEN "error" ELSE level

\* the message of an emitted call: the formatter is called when the call
\* has arguments after the message
messageText(n, msg, data) ==
  IF msg.type = "Error" THEN errorText(msg)
  ELSE IF Len(data) > 0 THEN format(n, msg.text, data)
  ELSE msg.text

\* const { file, line, column } = useTrace ? getCaller(2) : {} throws a
\* TypeError when getCaller returns null
callerThrows(n, level, caller) ==
  caller = "null" /\ levelOf(n, level).useTrace

\* the rendered line
render(n, level, msg, data, fnVal, caller, duration) ==
  Line(instances[n].optName, renderLevel(level, msg),
       messageText(n, msg, data), duration, data, fnVal, caller)

\* the buffer is capped and one more entry would exceed the cap
overflows == isFinite(maxBuffer) /\ Len(buffer) + 1 > maxBuffer[1].val

\* name field of a buffered entry
entryName(n) == IF impl = "index" THEN n ELSE instances[n].optName

\* mutant: the suppressed call keeps the time measure() has set
restoredTime_notRestored(before, measured) == measured

\* the value of lastTime when a suppressed call returns: measure() has set
\* it to `measured`, the call restores the value it had before
restoredTime(before, measured) == before

\* mutant: the mark-only call restores the timer like a suppressed call
markedTime_restored(before, now) == before

\* the value of lastTime when a mark-only call returns: updateTimer()
markedTime(before, now) == now

\* mutant: the sink is called a second time
sinkWrites_twice(output) == << <<output>>, <<output>> >>

\* this._out(output): one write of the rendered line
sinkWrites(output) == << <<output>> >>

\* mutant: the counter is not advanced
nextSeq_reused(seq) == seq

\* Vilog.#seqBuffer++
nextSeq(seq) == seq + 1

\* d1: clock ticks between the measurement and the buffer append;
\* d2: clock ticks between the append and the final updateTimer().
\* The Date.now() fallback of createNow is not monotonic: d1 is negative
\* when the wall clock is set back while the call runs
LogWith(n, level, msg, data, fnVal, caller, d1, d2) ==
  LET end == clock
      duration == end - lastTime
      output == render(n, level, msg, data, fnVal, caller, duration)
      entry == Entry(seqBuffer, clock + d1, entryName(n), output.level, output)
  IN
  /\ n \in DOMAIN instances
  /\ level \in methods(n)
  /\ clock + d1 \in 0..MaxClock
  /\ clock + d1 + d2 \in 0..MaxClock
  /\ op' = CallLog(n, level, msg, data, fnVal, caller)
  /\ warned' = 0
  /\ IF suppressed(n, level)
     THEN \* restore timing state
          /\ lastTime' = restoredTime(lastTime, end)
          /\ clock' = clock + d1
          /\ ret' = Undefined
          /\ out' = <<>>
          /\ UNCHANGED <<buffer, seqBuffer, flushed, lastMark>>
     ELSE IF falsy(msg)
     THEN \* mark timer only
          /\ lastTime' = markedTime(lastTime, clock + d1)
          /\ clock' = clock + d1
          /\ lastMark' = [lastMark EXCEPT ![n] = clock + d1]
          /\ ret' = Undefined
          /\ out' = <<>>
          /\ UNCHANGED <<buffer, seqBuffer, flushed>>
     ELSE IF callerThrows(n, renderLevel(level, msg), caller)
     THEN \* the TypeError leaves the time measure() has set
          /\ lastTime' = end
          /\ clock' = clock + d1
          /\ ret' = TypeError
          /\ out' = <<>>
          /\ UNCHANGED <<buffer, seqBuffer, flushed, lastMark>>
     ELSE /\ IF instances[n].silent
             THEN /\ seqBuffer < MaxSeq
                  /\ IF overflows /\ buffer # <<>>
                     THEN \* auto-flush once
                          /\ out' = <<outputs(flushList(flushOrderBy, buffer))>>
                          /\ flushed' = flushed + Len(flushList(flushOrderBy, buffer))
                          /\ buffer' = <<entry>>
                     ELSE /\ buffer' = Append(buffer, entry)
                          /\ out' = <<>>
                          /\ UNCHANGED flushed
                  /\ seqBuffer' = nextSeq(seqBuffer)
             ELSE /\ out' = sinkWrites(output)
                  /\ UNCHANGED <<buffer, seqBuffer, flushed>>
          /\ lastTime' = clock + d1 + d2
          /\ clock' = clock + d1 + d2
          /\ lastMark' = [lastMark EXCEPT ![n] = clock + d1 + d2]
          /\ ret' = StringOf(<<output>>, TRUE)
  /\ UNCHANGED <<impl, instances, nextId, logIdx, disabled, maxBuffer,
                 flushOrderBy>>

\* a call with the message as its only argument, from a call site that
\* getCaller finds
Log(n, level, msg, d1, d2) ==
  LogWith(n, level, msg, <<>>, Undefined, "found", d1, d2)

----------------------------------------------------------------------------
(* formatDuration.js.  A duration is a number of days below 2^32 + 2^16,   *)
(* given as <<high, low>> with value high * 2^16 + low, plus whole         *)
(* milliseconds below a day, plus nanoseconds below a millisecond, plus    *)
(* ten-thousandths of a nanosecond: every value is an exact decimal and    *)
(* the arithmetic of the code is exact on it.                              *)

DAY == 86400000
HOUR == 3600000
MINUTE == 60000

Duration(high, low, whole, nano, sub) ==
  [whole |-> whole,
   nano |-> nano,
   sub |-> sub,
   days |-> <<high, low>>]

units == <<<<"n", "s">>, <<"µ", "s">>, <<"m",
    "s">>, <<"s">>, <<"m">>, <<"h">>, <<"d">>>>

\* x | 0 of the whole number high * 2^16 + low: the low 32 bits, signed
toInt32(high, low) ==
  IF high % 65536 < 32768 THEN (high % 65536) * 65536 + low
  ELSE ((high % 65536) - 65536) * 65536 + low

\* '' + n of a whole number
signed(n) == IF n < 0 THEN <<"-">> \o decimal(0 - n) ELSE decimal(n)

\* pick unit index (0=ns, 1=µs, 2=ms, 3=s) of a duration below a minute
unitIndex(t) ==
  IF t.whole = 0 /\ t.nano < 1000 THEN 0
  ELSE IF t.whole = 0 THEN 1
  ELSE IF t.whole < 1000 THEN 2
  ELSE 3

\* mutant: the thousandths are cut off, not rounded
toUnit_floor(t, idx) ==
  CASE idx = 0 -> t.nano * 1000 + (t.sub \div 10)
    [] idx = 1 -> t.nano
    [] idx = 2 -> t.whole * 1000 + (t.nano \div 1000)
    [] idx = 3 -> t.whole

\* Math.floor(ms * factor[idx] + epsilon) of a duration below a minute:
\* the count of thousandths of the unit, a half rounded up
toUnit(t, idx) ==
  CASE idx = 0 -> t.nano * 1000 + ((t.sub + 5) \div 10)
    [] idx = 1 -> t.nano + ((t.sub + 5000) \div 10000)
    [] idx = 2 -> t.whole * 1000 + ((t.nano + 500) \div 1000)
    [] idx = 3 -> t.whole + (IF t.nano >= 500000 THEN 1 ELSE 0)

\* the digits of a fraction of n thousandths, 0 < n < 1000, without the
\* zeros at the end
fraction(n) ==
  IF n % 100 = 0 THEN decimal(n \div 100)
  ELSE IF n % 10 = 0 THEN decimal(n \div 100) \o decimal((n \div 10) % 10)
  ELSE decimal(n \div 100) \o decimal((n \div 10) % 10) \o decimal(n % 10)

\* '' + (val / 1e3)
thousandths(val) ==
  decimal(val \div 1000)
  \o (IF val % 1000 = 0 THEN <<>> ELSE <<".">> \o fraction(val % 1000))

\* zeros[k] of zeros = ['00', '0']
zeros(k) ==
  CASE k = 0 -> <<"0", "0">>
    [] k = 1 -> <<"0">>
    [] OTHER -> Str_undefined

\* out += ~pos ? zeros[out.length - pos - 2] : '.000'
padded(text) ==
  LET pos == indexOf(text, <<".">>, 0)
  IN text \o (IF pos # -1 THEN zeros(Len(text) - pos - 2) ELSE <<".", "0",
      "0", "0">>)

\* lines 108-135: sub-minute range
subMinute(t, trimOpt) ==
  LET idx == unitIndex(t)
      val == toUnit(t, idx)
      text == thousandths(val)
  IN IF idx < 3 /\ val >= 1000000 THEN <<"1">> \o units[idx + 2]
     ELSE IF idx = 3 /\ val >= MINUTE THEN <<"1", "m", " ", "0", "s">>
     ELSE (IF ~trimOpt THEN padded(text) ELSE text) \o units[idx + 1]

\* lines 137-171: minute-up range.  After ms -= d * DAY the milliseconds
\* are t.whole plus, when d has wrapped, a multiple of 2^32 days, which
\* the | 0 of the hours, minutes and seconds drops
minuteUp(t) ==
  LET d == toInt32(t.days[1], t.days[2])
      h0 == t.whole \div HOUR
      m0 == (t.whole % HOUR) \div MINUTE
      s0 == (t.whole % MINUTE) \div 1000
      carry == s0 >= 60
      s == IF carry THEN 0 ELSE s0
      m == IF carry THEN (IF m0 + 1 = 60 THEN 0 ELSE m0 + 1) ELSE m0
      h == IF carry /\ m0 + 1 = 60 THEN (IF h0 + 1 = 24 THEN 0 ELSE h0 + 1)
           ELSE h0
      dd == IF carry /\ m0 + 1 = 60 /\ h0 + 1 = 24 THEN d + 1 ELSE d
      parts == (IF dd # 0 THEN <<signed(dd) \o units[7]>> ELSE <<>>)
               \o (IF dd # 0 \/ h # 0 THEN <<decimal(h) \o units[6]>> ELSE <<>>)
               \o (IF dd # 0 \/ h # 0 \/ m # 0 THEN <<decimal(m) \o units[5]>>
                   ELSE <<>>)
               \o <<decimal(s) \o units[4]>>
  IN join(parts, <<" ">>)

formatDuration(t, trimOpt) ==
  IF t.days = <<0, 0>> /\ t.whole < MINUTE THEN subMinute(t, trimOpt)
  ELSE minuteUp(t)

----------------------------------------------------------------------------
(* the clock *)

\* time passes between two calls
Tick ==
  /\ clock < MaxClock
  /\ clock' = clock + 1
  /\ op' = [call |-> "tick"]
  /\ UNCHANGED <<impl, instances, nextId, logIdx, disabled, buffer, maxBuffer,
                 seqBuffer, flushOrderBy, lastTime, out, warned, ret,
                 flushed, lastMark>>

----------------------------------------------------------------------------
(* formatDate (pattern, { date }) called on its own *)

FormatDate(pattern) ==
  /\ op = Pending(CallFormatDate(pattern))
  /\ op' = CallFormatDate(pattern)
  /\ ret' = Text(formatDate(pattern, DateParts))
  /\ UNCHANGED <<impl, instances, nextId, logIdx, disabled, buffer, maxBuffer,
                 seqBuffer, flushOrderBy, clock, lastTime, out, warned,
                 flushed, lastMark>>

----------------------------------------------------------------------------
(* formatDuration (ms, { trim }) called on its own *)

FormatDuration(t, trimOpt) ==
  /\ op = Pending(CallFormatDuration(t, trimOpt))
  /\ op' = CallFormatDuration(t, trimOpt)
  /\ ret' = Text(formatDuration(t, trimOpt))
  /\ UNCHANGED <<impl, instances, nextId, logIdx, disabled, buffer, maxBuffer,
                 seqBuffer, flushOrderBy, clock, lastTime, out, warned,
                 flushed, lastMark>>

----------------------------------------------------------------------------
(* parse (layout) called on its own *)

CallParse(layout) == [call |-> "parse", layout |-> layout]

Items(items) == [kind |-> "items", items |-> items]

Parse(layout) ==
  /\ op = Pending(CallParse(layout))
  /\ op' = CallParse(layout)
  /\ ret' = Items(parse(layout))
  /\ UNCHANGED <<impl, instances, nextId, logIdx, disabled, buffer, maxBuffer,
                 seqBuffer, flushOrderBy, clock, lastTime, out, warned,
                 flushed, lastMark>>

----------------------------------------------------------------------------
(* Specifications: the same operations, called with different arguments *)

NoLevels == [l \in {} |-> <<>>]

Options(name, en, env, silent, mb, fo) ==
  [maxBuffer |-> mb,
   flushOrderBy |-> fo,
   name |-> name,
   levels |-> NoLevels,
   tokens |-> <<>>,
   enabled |-> en,
   env |-> env,
   silent |-> silent,
   format |-> "absent"]

\* options with levels, tokens and format
LayoutOptions(o, lv, tk, fm) ==
  [o EXCEPT !.levels = lv, !.tokens = tk, !.format = fm]

\* the maxBuffer and flushOrderBy options of the constructions of NextBuffer
BufferOptions ==
  {<<Absent, Absent>>, <<Num(1), Absent>>, <<Num(2), <<"name">> >>,
   <<Infinity, Absent>>, <<NotANumber, Absent>>}

\* buffer and flush: two silent instances, every kind of maxBuffer option,
\* manual and automatic flushes, a clock that moves forth or back while a
\* call runs
NextBuffer ==
  \/ \E bo \in BufferOptions :
       Construct(Options(Str_bx, "absent", Empty, TRUE, bo[1], bo[2]))
  \/ Construct(Options(Str_ax, "absent", Empty, TRUE, Absent, Absent))
  \/ \E n \in {Str_ax, Str_bx}, d1 \in {-1, 0, 1} :
       Log(n, "default", MsgText(<<"m">>), d1, 0)
  \/ \E orderBy \in {"undefined", "time", "name"},
        colored \in {"true", "undefined", "false"}, toRet \in {"true", "false"} :
       Flush(orderBy, colored, toRet)
  \/ \E name \in {Str_ax, Empty} : Peek(name)

SpecBuffer == Init /\ [][NextBuffer]_vars

\* registry: named and unnamed constructions, a name that collides with an
\* automatic one, constructions that throw
NextRegistry ==
  \/ \E name \in {Str_ax, Str_log1, Empty}, mb \in {Absent, NotANumber} :
       Construct(Options(name, "absent", Empty, FALSE, mb, Absent))
  \/ \E n \in {Str_ax, Str_log1} : Log(n, "default", MsgText(<<"m">>), 0, 0)
  \/ Tick

SpecRegistry == Init /\ [][NextRegistry]_vars

Patterns == {Empty, Star, Str_aStar, Str_bx}

\* enablement: the environment variable at construction, static disable and
\* enable, the enabled setter
NextEnable ==
  \/ \E en \in {"absent", "false"}, env \in {Empty, Star, Str_aStar, Str_ax, Str_bx} :
       \/ Construct(Options(Str_ax, en, env, FALSE, Absent, Absent))
       \/ Construct(Options(Str_bx, en, env, TRUE, Absent, Absent))
  \/ \E pattern \in Patterns : Disable(pattern)
  \/ \E pattern \in Patterns : Enable(pattern)
  \/ \E n \in {Str_ax, Str_bx}, value \in BOOLEAN : SetEnabled(n, value)
  \/ SetLevel(Str_ax, -2)
  \/ \E n \in {Str_ax, Str_bx} : Log(n, "default", MsgText(<<"m">>), 0, 0)
  \/ Flush("time", "true", "false")

SpecEnable == Init /\ [][NextEnable]_vars

\* timing: calls on two instances, suppressed by namespace or by level,
\* mark-only and emitted, with time passing inside and between the calls
NextTimer ==
  \/ Construct(Options(Str_ax, "absent", Empty, FALSE, Absent, Absent))
  \/ Construct(Options(Str_bx, "absent", Empty, TRUE, Absent, Absent))
  \/ Disable(Star)
  \/ Enable(Star)
  \/ \E level \in {1, 4} : SetLevel(Str_ax, level)
  \/ \E level \in {"default", "error"},
        msg \in {MsgText(<<"m">>), MsgText(<<>>), MsgUndefined, MsgNull, MsgError(<<"e">>, <<"e">>)},
        d1 \in 0..1, d2 \in 0..1 :
       Log(Str_ax, level, msg, d1, d2)
  \/ \E msg \in {MsgText(<<"m">>), MsgNull} : Log(Str_bx, "default", msg, 0, 0)
  \/ Tick

SpecTimer == Init /\ [][NextTimer]_vars

\* patterns put together from marker pieces
MaxPieces == 4

Str_marker == <<"%", "d", "{", "M", "M", "}">>

Pieces == {Str_marker, open, <<"}">>, <<"%", "d">>, <<"x">>}

DatePatterns ==
  {concat(p) : p \in UNION {[1..k -> Pieces] : k \in 0..MaxPieces}}

NextFormatDate == \E pattern \in DatePatterns : FormatDate(pattern)

InitFormatDate ==
  \E pattern \in DatePatterns : InitWith(Pending(CallFormatDate(pattern)))

SpecFormatDate == InitFormatDate /\ [][NextFormatDate]_vars

\* a custom level next to the default ones
TraceLevel == [trace |-> [layout |-> <<"{", "m", "s", "g", "}">>]]

\* Error values logged through the methods of every kind of level, on an
\* instance whose threshold and whose namespace rule change
NextLevels ==
  \/ Construct(LayoutOptions(
                 Options(Str_ax, "absent", Empty, FALSE, Absent, Absent),
                 TraceLevel, <<>>, "absent"))
  \/ Disable(Star)
  \/ Enable(Star)
  \/ \E level \in {-1, 1, 4} : SetLevel(Str_ax, level)
  \/ \E level \in {"default", "debug", "error", "trace"},
        msg \in {MsgError(<<"E", ":", " ", "e", " ", "a", "t", " ",
            "f">>, <<"e">>), MsgError(<<>>, <<"e">>),
                 MsgText(<<"m">>)} :
       Log(Str_ax, level, msg, 0, 0)
  \/ Tick

SpecLevels == Init /\ [][NextLevels]_vars

\* dispatch: an instance that writes at once and a silent one, with or
\* without a cap on the buffer
NextDispatch ==
  \/ Construct(Options(Str_ax, "absent", Empty, FALSE, Absent, Absent))
  \/ \E mb \in {Absent, Num(1)} :
       Construct(Options(Str_bx, "absent", Empty, TRUE, mb, Absent))
  \/ \E n \in {Str_ax, Str_bx}, msg \in {MsgText(<<"m">>), MsgText(<<"n">>)} :
       Log(n, "default", msg, 0, 0)
  \/ \E toRet \in {"true", "false"} : Flush("undefined", "true", toRet)
  \/ Tick

SpecDispatch == Init /\ [][NextDispatch]_vars

\* message formatting: the default formatter or the one of
\* test/format.test.js, templates with and without fields, calls with zero,
\* one and two arguments after the message
NextFormat ==
  \/ \E fm \in {"absent", "upper"} :
       Construct(LayoutOptions(
                   Options(Str_ax, "absent", Empty, FALSE, Absent, Absent),
                   NoLevels, <<>>, fm))
  \/ \E msg \in {MsgText(<<"m">>), MsgText(<<"%", "s">>), MsgText(<<"m",
      "%", "%">>),
                 MsgText(<<"%", "d">>)},
        data \in {<<>>, <<<<"x">>>>, <<<<"x">>, <<"7">>>>} :
       LogWith(Str_ax, "default", msg, data, Undefined, "found", 0, 0)
  \/ Tick

SpecFormat == Init /\ [][NextFormat]_vars

\* the layouts of the default level and the token sources of NextLayout:
\* a layout that captures the caller, a function token and a literal token
\* in braces, a function token and a literal token after a percent sign,
\* tokens that are not defined, with and without spaces inside the braces
Layouts ==
  { <<<<"{", "f", "i", "l", "e", "}", " ", "{", "m", "s", "g", "}">>, <<>> >>,
    <<<<"[", "{", "h", "o", "s", "t", "}", "]", " ", "{", "m", "s", "g",
        "}">>, << <<<<"h", "o", "s", "t">>, TokenFn>> >> >>,
    <<<<"[", "{", "h", "o", "s", "t", "}", "]", " ", "{", "m", "s", "g",
        "}">>, << <<<<"h", "o", "s", "t">>, Literal(<<"h">>)>> >> >>,
    <<<<"%", "z", "|", "{", "m", "s", "g", "}">>, << <<<<"%",
        "z">>, TokenFn>> >> >>,
    <<<<"%", "z", "|", "{", "m", "s", "g", "}">>, << <<<<"%",
        "z">>, Literal(<<"h">>)>> >> >>,
    <<<<"(", "%", "x", ")", " ", "{", "y", "}", " ", "{", "m", "s", "g",
        "}">>, <<>> >>,
    <<<<"a", "{", " ", "x", " ", "}", "b", " ", "{", "m", "s", "g",
        "}">>, <<>> >> }

\* layouts and tokens: one instance constructed with any of the layouts,
\* calls whose function token returns one value or another, from a call
\* site that getCaller finds or does not find
NextLayout ==
  \/ \E lt \in Layouts :
       Construct(LayoutOptions(
                   Options(Str_ax, "absent", Empty, FALSE, Absent, Absent),
                   [default |-> [layout |-> lt[1]]], lt[2], "absent"))
  \/ \E fnVal \in {Text(<<"v">>), Text(<<"w">>)}, caller \in {"found",
      "null"} :
       LogWith(Str_ax, "default", MsgText(<<"m">>), <<>>, fnVal, caller, 0, 0)
  \/ Tick

SpecLayout == Init /\ [][NextLayout]_vars

\* durations: below a minute, around every change of unit and every
\* rounding threshold; from a minute on, around every carry; and day
\* counts at and beyond the signed 32-bit range, with no milliseconds so
\* that the number is one a double holds exactly
MaxDays == 2

SubMinuteDurations ==
  {Duration(0, 0, whole, nano, sub) :
     whole \in {0, 1, 999, 1100, 59999},
     nano \in {0, 1, 999, 123100, 499999, 500000, 999999},
     sub \in {0, 4, 5, 9995}}

MinuteUpDurations ==
  {Duration(0, low, whole, nano, 0) :
     low \in 0..MaxDays \cup {365},
     whole \in {0, 59999, 60000, 119999, 3599999, 3726789, 86399999},
     nano \in {0, 999999}}
  \ SubMinuteDurations

HugeDurations ==
  {Duration(32767, 65535, 0, 0, 0), Duration(49152, 0, 0, 0, 0),
   Duration(65536, 0, 0, 0, 0)}

Durations == SubMinuteDurations \cup MinuteUpDurations \cup HugeDurations

NextFormatDuration ==
  \E t \in Durations, trimOpt \in BOOLEAN : FormatDuration(t, trimOpt)

InitFormatDuration ==
  \E t \in Durations, trimOpt \in BOOLEAN :
    InitWith(Pending(CallFormatDuration(t, trimOpt)))

SpecFormatDuration == InitFormatDuration /\ [][NextFormatDuration]_vars

\* messages with two spaces inside, without, and with a dollar pattern
Messages == {MsgText(<<"a", " ", " ", "b">>), MsgText(<<"m">>), MsgText(<<"$", "$">>)}

\* layouts with text after the message, with two spaces before it, and
\* with two message tokens
MessageLayouts == {<<"{", "m", "s", "g", "}", "|", "x">>, <<"a", " ", " ", "{", "m", "s", "g", "}">>, <<"{", "m", "s", "g", "}", " ", "{", "m", "s", "g", "}">>}

\* messages in layouts: instances constructed with any of the layouts, and
\* calls with any of the messages
NextMessage ==
  \/ \E n \in {Str_ax, Str_bx}, layout \in MessageLayouts :
       Construct(LayoutOptions(
                   Options(n, "absent", Empty, FALSE, Absent, Absent),
                   [default |-> [layout |-> layout]], <<>>, "absent"))
  \/ \E n \in {Str_ax, Str_bx}, msg \in Messages :
       LogWith(n, "default", msg, <<>>, Undefined, "found", 0, 0)
  \/ Tick

SpecMessage == Init /\ [][NextMessage]_vars

\* layouts with a token that can resolve to the empty string: a literal ''
\* and a function token before the message, a literal '' after it, a
\* function token with inner padding, and the logger name
EmptyLayouts ==
  { <<<<"{", "x", "}", " ", "{", "m", "s", "g", "}">>, << <<<<"x">>, Literal(<<>>)>> >> >>,
    <<<<"{", "x", "}", " ", "{", "m", "s", "g", "}">>, << <<<<"x">>, TokenFn>> >> >>,
    <<<<"{", "m", "s", "g", "}", " ", "{", "x", "}", " ", "e">>, << <<<<"x">>, Literal(<<>>)>> >> >>,
    <<<<"[", "{", " ", "x", " ", "}", "]", " ", "{", "m", "s", "g", "}">>, << <<<<"x">>, TokenFn>> >> >>,
    <<<<"{", "n", "a", "m", "e", "}", " ", "{", "m", "s", "g", "}">>, <<>> >> }

\* empty tokens: instances with and without a name constructed with any of
\* the layouts, and calls whose function token returns '' or a text
NextEmpty ==
  \/ \E name \in {Str_ax, Empty}, lt \in EmptyLayouts :
       Construct(LayoutOptions(
                   Options(name, "absent", Empty, FALSE, Absent, Absent),
                   [default |-> [layout |-> lt[1]]], lt[2], "absent"))
  \/ \E n \in DOMAIN instances, fnVal \in {Text(<<>>), Text(<<"v">>)} :
       LogWith(n, "default", MsgText(<<"m">>), <<>>, fnVal, "found", 0, 0)

SpecEmpty == Init /\ [][NextEmpty]_vars

\* layouts put together from braces, a percent sign, a space, a letter and
\* a character outside ASCII
MaxLen == 4

LayoutPieces == {"{", "}", "%", "a", " ", "é"}

ParseLayouts == UNION {[1..k -> LayoutPieces] : k \in 0..MaxLen}

NextParse == \E layout \in ParseLayouts : Parse(layout)

InitParse == \E layout \in ParseLayouts : InitWith(Pending(CallParse(layout)))

SpecParse == InitParse /\ [][NextParse]_vars

\* buffer and flush with a monotonic clock (performance.now, hrtime): two
\* silent instances, manual and automatic flushes, a clock that stays or
\* moves forth while a call runs
NextMonotonic ==
  \/ \E bo \in BufferOptions :
       Construct(Options(Str_bx, "absent", Empty, TRUE, bo[1], bo[2]))
  \/ Construct(Options(Str_ax, "absent", Empty, TRUE, Absent, Absent))
  \/ \E n \in {Str_ax, Str_bx}, d1 \in {0, 1} :
       Log(n, "default", MsgText(<<"m">>), d1, 0)
  \/ \E orderBy \in {"undefined", "time", "name"}, toRet \in {"true", "false"} :
       Flush(orderBy, "undefined", toRet)

SpecMonotonic == Init /\ [][NextMonotonic]_vars

\* constructions that throw: two silent instances, enabled or not, with a maxBuffer option that is absent, a number or not
\* a number, and calls and flushes between them
NextThrow ==
  \/ \E name \in {Str_ax, Str_bx}, en \in {"absent", "false"},
        env \in {Empty, Str_aStar}, bo \in BufferOptions :
       Construct(Options(name, en, env, TRUE, bo[1], bo[2]))
  \/ \E n \in {Str_ax, Str_bx} : Log(n, "default", MsgText(<<"m">>), 0, 0)
  \/ Flush("time", "true", "true")

SpecThrow == Init /\ [][NextThrow]_vars

----------------------------------------------------------------------------
(* Properties *)


\* the bag of the elements of a sequence
bagOf(s) == [x \in Range(s) |-> Cardinality({i \in DOMAIN s : s[i] = x})]

\* the rearrangements of a sequence
Rearranged(s) ==
  {[i \in DOMAIN s |-> s[p[i]]] :
     p \in {q \in [DOMAIN s -> DOMAIN s] : \A i, j \in DOMAIN s : i # j => q[i] # q[j]}}

\* a <= b by (timestamp, sequence number, namespace)
timeOrder(a, b) ==
  \/ a.t < b.t
  \/ a.t = b.t /\ a.seq < b.seq
  \/ a.t = b.t /\ a.seq = b.seq /\ localeCompare(a.name, b.name) <= 0

\* a <= b by (namespace, timestamp, sequence number)
nameOrder(a, b) ==
  \/ localeCompare(a.name, b.name) < 0
  \/ localeCompare(a.name, b.name) = 0 /\ a.t < b.t
  \/ localeCompare(a.name, b.name) = 0 /\ a.t = b.t /\ a.seq <= b.seq

\* the step is a log call that took the suppressed branch of _log
SuppressedCall ==
  /\ op'.call = "log"
  /\ \/ isDisabled(disabled, op'.name)
     \/ impl = "part_004" /\ aboveLevel(op'.level, instances[op'.name].level)

\* the step is a log call that is not suppressed and has a falsy message
MarkCall == op'.call = "log" /\ ~SuppressedCall /\ falsy(op'.msg)

\* the step is a log call that emits
EmitCall == op'.call = "log" /\ ~SuppressedCall /\ ~falsy(op'.msg)

\* C1: a construction with a namespace that is already registered returns
\* the instance that the first construction with that namespace returned,
\* leaves the registry as it is and warns exactly once; a construction with
\* a new namespace does not warn and registers a new instance under it.
C1_DuplicateReturnsSame ==
  [][op'.call = "new" =>
       IF op'.name \in DOMAIN instances
       THEN /\ ret' = InstanceRef(instances[op'.name].id)
            /\ instances' = instances
            /\ warned' = 1
       ELSE /\ warned' = 0
            /\ ret'.kind = "instance" =>
                 /\ DOMAIN instances' = DOMAIN instances \cup {op'.name}
                 /\ ret'.id = instances'[op'.name].id
                 /\ \A m \in DOMAIN instances :
                      /\ instances'[m] = instances[m]
                      /\ instances[m].id # ret'.id]_vars

C1_Witness ==
  /\ op.call = "new"
  /\ warned = 1
  /\ Cardinality(DOMAIN instances) >= 2
  /\ ret = InstanceRef(instances[op.name].id)

\* C2: whenever the cap is a finite number, the buffer holds at most
\* maxBuffer entries.
C2_BufferWithinCap ==
  isFinite(maxBuffer) => Len(buffer) <= maxBuffer[1].val

\* the lines a flush of this step emitted, manual or automatic
EmittedByFlush ==
  IF op'.call = "flush" THEN ret'.lines
  ELSE IF op'.call = "log" /\ instances[op'.name].silent /\ out' # <<>>
       THEN out'[1]
  ELSE <<>>

\* the entries of the old buffer that are no longer buffered
Left == SelectSeq(buffer, LAMBDA e : e \notin Range(buffer'))

\* C3: no buffered entry is dropped or emitted twice: the entries appended
\* so far are those in the buffer plus those emitted by flushes; every step
\* keeps each buffered entry or emits it in a flush; a flush emits all
\* buffered entries and empties the buffer; a flush of the empty buffer
\* returns the empty string and writes nothing.
C3_NothingDroppedOrDuplicated ==
  [][ /\ Len(buffer') + flushed' = seqBuffer'
      /\ \A i, j \in DOMAIN buffer' : i # j => buffer'[i].seq # buffer'[j].seq
      /\ bagOf(outputs(Left)) = bagOf(EmittedByFlush)
      /\ flushed' = flushed + Len(EmittedByFlush)
      /\ \A e \in Range(buffer') : e \in Range(buffer) \/ e.seq = seqBuffer
      /\ op'.call = "flush" =>
           /\ buffer' = <<>>
           /\ out' = IF buffer # <<>> /\ op'.toRet # "true"
                     THEN <<ret'.lines>> ELSE <<>>
           /\ buffer = <<>> => ret'.lines = <<>>
      /\ op'.call \notin {"flush", "log"} => buffer' = buffer]_vars

C3_Witness ==
  /\ op.call = "log"
  /\ instances[op.name].silent
  /\ out # <<>>
  /\ Len(buffer) = 1
  /\ flushed >= 1

\* the list is sorted by the order and a rearrangement of the buffer, and
\* the lines are its outputs
SortedOutput(lines, order(_, _)) ==
  \E list \in Rearranged(buffer) :
    /\ \A i \in 1..(Len(list) - 1) : order(list[i], list[i + 1])
    /\ lines = outputs(list)

C5_GlobalDisableWins ==
  [][ /\ (op'.call = "disable" /\ op'.pattern \in {Star, Empty}) =>
          Star \in disabled'
      /\ (Star \in disabled /\ op'.call = "log") =>
          /\ ret' = Undefined
          /\ out' = <<>>
          /\ buffer' = buffer
      /\ (Star \in disabled /\ op'.call = "setEnabled" /\ op'.value) =>
          /\ Star \in disabled'
          /\ \A n \in DOMAIN instances' : isDisabled(disabled', n)
      /\ (op'.call = "enable" /\ op'.pattern \in {Star, Empty}) =>
          \A n \in DOMAIN instances' : ~isDisabled(disabled', n)
      /\ (op.call = "enable" /\ op.pattern \in {Star, Empty} /\ op'.call = "log"
          /\ levels[op'.level] <= instances[op'.name].level
          /\ ~falsy(op'.msg)) =>
          /\ ret'.kind = "string"
          /\ (out' # <<>> \/ buffer' # buffer)]_vars

C5_Witness ==
  /\ op.call = "setEnabled"
  /\ op.value
  /\ Star \in disabled
  /\ ~enabled(op.name)

\* C6: a log call on namespace n is suppressed if and only if the disabled
\* set contains a pattern that matches n.
C6_SuppressedIffPatternMatches ==
  (/\ op.call = "log"
   /\ levels[op.level] <= instances[op.name].level
   /\ ~falsy(op.msg)) =>
     ((ret = Undefined) <=> (\E pattern \in disabled : matchPattern(pattern, op.name)))

\* C7: a construction of a new instance with options.enabled === false, at
\* a time when no disable rule matches the namespace, leaves the instance
\* disabled if and only if the environment pattern does not match the
\* namespace.
C7_DisabledUnlessEnvMatches ==
  [][(/\ op'.call = "new"
      /\ op'.name \notin DOMAIN instances
      /\ op'.name \in DOMAIN instances'
      /\ op'.options.enabled = "false"
      /\ \A pattern \in disabled : ~matchPattern(pattern, op'.name)) =>
       (isDisabled(disabled', op'.name)
          <=> (~matchPattern(op'.options.env, op'.name)))]_vars

\* C8: a suppressed log call returns undefined, writes nothing, appends
\* nothing, does not advance the sequence counter and leaves lastTime at
\* its value before the call.
C8_SuppressedCallHasNoEffect ==
  [][SuppressedCall =>
       /\ ret' = Undefined
       /\ out' = <<>>
       /\ buffer' = buffer
       /\ seqBuffer' = seqBuffer
       /\ lastTime' = lastTime]_vars

C8_Witness ==
  /\ op.call = "log"
  /\ ret = Undefined
  /\ ~falsy(op.msg)
  /\ lastTime < clock

\* C9: a log call on an enabled namespace with a null, undefined or empty
\* message returns undefined, writes nothing, appends nothing and sets
\* lastTime to the clock time at its end; an emitted call reports the time
\* from lastTime to its measurement.
C9_MarkOnlySetsTimer ==
  [][ /\ MarkCall =>
          /\ ret' = Undefined
          /\ out' = <<>>
          /\ buffer' = buffer
          /\ seqBuffer' = seqBuffer
          /\ lastTime' = clock'
      /\ EmitCall => ret'.lines[1].duration = clock - lastTime]_vars

C9_Witness ==
  /\ op.call = "log"
  /\ falsy(op.msg)
  /\ enabled(op.name)
  /\ levels[op.level] <= instances[op.name].level
  /\ lastTime = clock
  /\ clock > 0

LatestMark ==
  CHOOSE t \in Range(lastMark) : \A u \in Range(lastMark) : u <= t

ErrorCall == op'.call = "log" /\ op'.msg.type = "Error"

\* the step returns one line of level error that holds the stack of the
\* Error, or its message when the stack is empty, and writes that line
ErrorEmitted ==
  /\ ret'.kind = "string"
  /\ Len(ret'.lines) = 1
  /\ ret'.lines[1].level = "error"
  /\ (op'.msg.stack # <<>> => ret'.lines[1].msg = op'.msg.stack)
  /\ (op'.msg.stack = <<>> => ret'.lines[1].msg = op'.msg.message)
  /\ textOf(op'.name, ret'.lines[1], clock)
       = textOf(op'.name, [ret'.lines[1] EXCEPT !.level = "error"], clock)
  /\ out' = <<ret'.lines>>

ReturnsRendered ==
  /\ ret'.kind = "string"
  /\ Len(ret'.lines) = 1
  /\ ret'.lines[1].msg = op'.msg.text
  /\ ret'.lines[1].name = instances[op'.name].optName

\* the string returned is written once and the buffer is left alone
WrittenOnce == out' = <<ret'.lines>> /\ buffer' = buffer

\* the buffer holds exactly one entry more than the entries the step has
\* not written, and the new entry, the last one, holds the string returned
OneEntryAppended ==
  /\ Len(buffer') = Len(buffer) - Len(concat(out')) + 1
  /\ buffer'[Len(buffer')].output = ret'.lines[1]
  /\ SubSeq(buffer', 1, Len(buffer') - 1)
       = SubSeq(buffer, Len(concat(out')) + 1, Len(buffer))

\* C12 as stated: a silent instance never calls the sink during a log call
C12_SilentCallNeverWrites ==
  [][ EmitCall =>
        /\ ReturnsRendered
        /\ ~instances[op'.name].silent => WrittenOnce
        /\ instances[op'.name].silent => (out' = <<>> /\ OneEntryAppended)
    ]_vars

\* C12: every emitted log call returns the rendered string; on a non-silent
\* instance exactly that string is written exactly once during the call; on
\* a silent instance exactly one entry holding that string is appended and
\* the string is not written: the only write such a call can make is the
\* automatic flush, in one write, of all the entries buffered before the
\* call, when the buffer is full
C12_DispatchOnce ==
  [][ EmitCall =>
        /\ ReturnsRendered
        /\ ~instances[op'.name].silent => WrittenOnce
        /\ instances[op'.name].silent =>
             /\ OneEntryAppended
             /\ \/ out' = <<>>
                \/ /\ overflows
                   /\ buffer # <<>>
                   /\ Len(out') = 1
                   /\ bagOf(out'[1]) = bagOf(outputs(buffer))
    ]_vars

\* a silent call that appended to a non-empty buffer and wrote nothing
C12_Witness ==
  /\ op.call = "log"
  /\ op.name = Str_bx
  /\ ret.kind = "string"
  /\ out = <<>>
  /\ Len(buffer) = 2
  /\ buffer[2].output = ret.lines[1]

\* a call of the instance that is not silent wrote its string
C12_WitnessWritten ==
  /\ op.call = "log"
  /\ op.name = Str_ax
  /\ ret.kind = "string"
  /\ out = <<ret.lines>>

\* C13: the message of every emitted call that does not pass an Error is
\* the result of the configured formatter applied to the message and the
\* remaining arguments, whatever their number
C13_MessageIsFormatted ==
  [][ (EmitCall /\ op'.msg.type # "Error" /\ ret'.kind = "string")
      => ret'.lines[1].msg = format(op'.name, op'.msg.text, op'.data) ]_vars

\* the same for the calls that pass at least one argument after the message
C13_FormattedWithArguments ==
  [][ (EmitCall /\ op'.msg.type # "Error" /\ ret'.kind = "string"
       /\ Len(op'.data) > 0)
      => ret'.lines[1].msg = format(op'.name, op'.msg.text, op'.data) ]_vars

\* C14: a log call never throws: it ends by returning a string or undefined
C14_LogNeverThrows ==
  [][ op'.call = "log" => ret'.kind \in {"string", "undefined"} ]_vars

\* the text of a token in a layout
TokenText(name) == IF name[1] = "%" THEN name ELSE wrapToken(name)

\* a layout in which the tokens of a token source are replaced by their
\* values: a literal by its text, a function by the value it returns
RECURSIVE Substituted(_, _, _)
Substituted(layout, tokens, fnVal) ==
  IF tokens = <<>> THEN layout
  ELSE Substituted(replace(layout, TokenText(tokens[1][1]),
                           IF tokens[1][2] = TokenFn THEN fnVal.text
                           ELSE tokens[1][2].text),
                   Tail(tokens), fnVal)

\* the output a call expects from the layout of its level, the token
\* source of its instance and its message
Expected(n, call) ==
  replace(Substituted(instances[n].levels[call.level].layout,
                      instances[n].tokens, call.fnVal),
          wrapToken(Str_msg), call.msg.text)

\* the step is an emitted call of a level whose layout is given, on an
\* instance with custom tokens or without
LayoutCall(custom) ==
  /\ EmitCall
  /\ ret'.kind = "string"
  /\ op'.level \in DOMAIN instances[op'.name].levels
  /\ (instances[op'.name].tokens # <<>>) = custom

\* C15: the value a function token returns in a call is the one that
\* appears in the output of that call, and a literal token appears with the
\* text it had when the instance was constructed
C15_TokenValuesInOutput ==
  [][ LayoutCall(TRUE)
      => textOf(op'.name, ret'.lines[1], clock) = Expected(op'.name, op') ]_vars

\* C19: a token that is neither defined in the token source nor built in
\* appears in the output as its text in the layout
C19_UndefinedTokenVerbatim ==
  [][ (LayoutCall(FALSE) /\ op'.caller = "found"
       /\ ~includes(instances[op'.name].levels[op'.level].layout, Str_file))
      => textOf(op'.name, ret'.lines[1], clock) = Expected(op'.name, op') ]_vars

\* the positions of the date markers of a pattern, and where each one ends
Markers(p) == {i \in 0..(Len(p) - Len(open)) : slice(p, i, i + Len(open)) = open}

Least(S) == CHOOSE i \in S : \A j \in S : i <= j

NextMarker(p, i) ==
  IF \E j \in Markers(p) : j > i
  THEN Least({j \in Markers(p) : j > i})
  ELSE Len(p)

Closing(p, i) ==
  {j \in (i + Len(open))..(NextMarker(p, i) - 1) : charAt(p, j) = "}"}

\* a marker with its text up to the next marker: rendered when it is closed
Segment(p, i, date) ==
  IF Closing(p, i) = {} THEN slice(p, i, NextMarker(p, i))
  ELSE renderDate(slice(p, i + Len(open), Least(Closing(p, i))), date)
       \o slice(p, Least(Closing(p, i)) + 1, NextMarker(p, i))

RECURSIVE SegmentsFrom(_, _, _)
SegmentsFrom(p, i, date) ==
  IF i >= Len(p) THEN <<>>
  ELSE Segment(p, i, date) \o SegmentsFrom(p, NextMarker(p, i), date)

\* the first %d stands for the default marker when no "{" follows it
WithDefault(p) ==
  LET bare == {i \in 0..(Len(p) - 2) : slice(p, i, i + 2) = <<"%", "d">>}
  IN IF bare = {} \/ Least(bare) \in Markers(p) THEN p
     ELSE slice(p, 0, Least(bare)) \o DefaultDateFormat
          \o slice(p, Least(bare) + 2, Len(p))

Rendered(p, date) ==
  slice(WithDefault(p), 0, NextMarker(WithDefault(p), -1))
  \o SegmentsFrom(WithDefault(p), NextMarker(WithDefault(p), -1), date)

\* C20: formatDate returns a string for every pattern: a %d{ marker with no
\* "}" before the next %d{ or the end of the pattern stays as it is written,
\* and every closed marker before and after it is rendered
C20_MalformedMarkerVerbatim ==
  op.call = "formatDate" =>
    ret = Text(Rendered(op.pattern, DateParts))

\* an unclosed marker between two closed ones
C20_Witness ==
  /\ op.call = "formatDate"
  /\ op.pattern = Str_marker \o open \o <<"x">> \o Str_marker
  /\ ret = Text(<<"1", "2", "%", "d", "{", "x", "1", "2">>)

\* the positions of the %d that no "{" follows
Bare(p) ==
  {i \in 0..(Len(p) - 2) :
     slice(p, i, i + 2) = Str_pd /\ charAt(p, i + 2) # "{"}

\* every %d{ of the pattern is closed before the next one, and no bare %d
\* lies inside a marker
WellFormed(p) ==
  /\ \A i \in Markers(p) : Closing(p, i) # {}
  /\ \A b \in Bare(p) :
       ~\E i \in Markers(p) : i < b /\ b < Least(Closing(p, i))

\* a well-formed pattern from position i on, every marker replaced: a bare
\* %d by the rendered default format, a %d{spec} by its rendered spec
RECURSIVE Replaced(_, _, _)
Replaced(p, i, date) ==
  IF i >= Len(p) THEN <<>>
  ELSE IF i \in Markers(p)
  THEN renderDate(slice(p, i + Len(open), Least(Closing(p, i))), date)
       \o Replaced(p, Least(Closing(p, i)) + 1, date)
  ELSE IF i \in Bare(p)
  THEN renderDate(slice(DefaultDateFormat, Len(open),
                        Len(DefaultDateFormat) - 1), date)
       \o Replaced(p, i + 2, date)
  ELSE <<charAt(p, i)>> \o Replaced(p, i + 1, date)

\* C21: formatDate replaces every well-formed date marker of the pattern,
\* however many there are and in whatever order: a bare %d by the rendered
\* default format, a %d{spec} by its rendered spec; the text outside the
\* markers is passed through unchanged
C21_EveryMarkerReplaced ==
  (op.call = "formatDate" /\ WellFormed(op.pattern)) =>
    ret = Text(Replaced(op.pattern, 0, DateParts))

\* the same for the patterns in which no bare %d follows another marker
C21_FirstBareMarkerReplaced ==
  (/\ op.call = "formatDate"
   /\ WellFormed(op.pattern)
   /\ \A b \in Bare(op.pattern) :
        \A i \in Markers(op.pattern) \cup Bare(op.pattern) : b <= i) =>
    ret = Text(Replaced(op.pattern, 0, DateParts))

\* the decimal digits of the whole number high * 2^16 + low
RECURSIVE Decimal(_, _)
Decimal(high, low) ==
  LET rest == (high % 10) * 65536 + low
  IN IF high = 0 /\ low < 10 THEN decimal(low)
     ELSE Decimal(high \div 10, rest \div 10) \o decimal(rest % 10)

\* the duration is a minute or more
MinuteUp(t) == t.days # <<0, 0>> \/ t.whole >= MINUTE

\* days, hours, minutes and seconds of the whole seconds of a duration of a
\* minute or more: days only when not zero, hours only when days or hours
\* are not zero, minutes and seconds always, joined by single spaces
Decomposed(t) ==
  LET seconds == t.whole \div 1000
      s == seconds % 60
      m == (seconds \div 60) % 60
      h == seconds \div 3600
      days == t.days # <<0, 0>>
  IN (IF days THEN Decimal(t.days[1], t.days[2]) \o <<"d", " ">> ELSE <<>>)
     \o (IF days \/ h # 0 THEN decimal(h) \o <<"h", " ">> ELSE <<>>)
     \o decimal(m) \o <<"m", " ">> \o decimal(s) \o <<"s">>

\* C22: for every duration of a minute or more formatDuration prints the
\* days, hours, minutes and seconds of the whole number of elapsed seconds,
\* the fraction of a second cut off
C22_MinuteUpDecomposed ==
  (op.call = "formatDuration" /\ MinuteUp(op.ms)) =>
    ret = Text(Decomposed(op.ms))

\* the same for the durations below 2^31 days
C22_DecomposedBelowInt32Days ==
  (op.call = "formatDuration" /\ MinuteUp(op.ms) /\ op.ms.days[1] < 32768) =>
    ret = Text(Decomposed(op.ms))

\* the duration is below a minute
SubMinute(t) == ~MinuteUp(t)

\* 1 when the part is half of the full or more, else 0
Half(part, full) == IF 2 * part >= full THEN 1 ELSE 0

\* the unit a duration below a minute falls in by its magnitude: 1 for ns
\* below 0.001 ms, 2 for µs below 1 ms, 3 for ms below 1000 ms, else 4 for s
UnitOf(t) ==
  CASE t.whole >= 1000 -> 4
    [] t.whole \in 1..999 -> 3
    [] t.whole = 0 /\ t.nano >= 1000 -> 2
    [] OTHER -> 1

\* the thousandths of its unit in a duration below a minute, half up
Rounded(t) ==
  CASE UnitOf(t) = 4 -> t.whole + Half(t.nano, 1000000)
    [] UnitOf(t) = 3 ->
         t.whole * 1000 + (t.nano \div 1000)
         + Half((t.nano % 1000) * 10000 + t.sub, 10000000)
    [] UnitOf(t) = 2 -> t.nano + Half(t.sub, 10000)
    [] UnitOf(t) = 1 -> t.nano * 1000 + (t.sub \div 10) + Half(t.sub % 10, 10)

\* the three digits of a number of thousandths below 1000
ThreeDigits(n) ==
  decimal(n \div 100) \o decimal((n \div 10) % 10) \o decimal(n % 10)

\* a text without the zeros at its end
RECURSIVE NoZerosAtEnd(_)
NoZerosAtEnd(s) ==
  IF s # <<>> /\ s[Len(s)] = "0" THEN NoZerosAtEnd(SubSeq(s, 1, Len(s) - 1))
  ELSE s

\* a number of thousandths printed with at most three decimals and no
\* zeros at the end, no decimal point when it is whole
Shortest(n) ==
  LET digits == NoZerosAtEnd(ThreeDigits(n % 1000))
  IN decimal(n \div 1000) \o (IF digits = <<>> THEN <<>> ELSE <<".">> \o digits)

\* the number and the unit of a duration below a minute: what rounds to
\* 1000 of a unit is 1 of the next, what rounds to 60 s is one minute
Carried(t) ==
  IF UnitOf(t) < 4 /\ Rounded(t) = 1000000
  THEN [number |-> 1000, unit |-> units[UnitOf(t) + 1], minute |-> FALSE]
  ELSE IF UnitOf(t) = 4 /\ Rounded(t) = 60000
  THEN [number |-> 0, unit |-> <<>>, minute |-> TRUE]
  ELSE [number |-> Rounded(t), unit |-> units[UnitOf(t)], minute |-> FALSE]

C24_ThreeDecimalsOrTrimmed ==
  (op.call = "formatDuration" /\ SubMinute(op.ms)
   /\ ~Carried(op.ms).minute) =>
    LET c == Carried(op.ms)
    IN ret.text = (IF op.trimOpt THEN Shortest(c.number)
                   ELSE decimal(c.number \div 1000) \o <<".">>
                        \o ThreeDigits(c.number % 1000))
                  \o c.unit

\* the same for the numbers that are not carried to the next unit and have
\* at most two digits after the point
C24_UpToTwoDecimals ==
  (op.call = "formatDuration" /\ SubMinute(op.ms)
   /\ ~Carried(op.ms).minute
   /\ Carried(op.ms).number = Rounded(op.ms)
   /\ Rounded(op.ms) % 10 = 0) =>
    LET c == Carried(op.ms)
    IN ret.text = (IF op.trimOpt THEN Shortest(c.number)
                   ELSE decimal(c.number \div 1000) \o <<".">>
                        \o ThreeDigits(c.number % 1000))
                  \o c.unit
\* a text in which every message token is replaced by the message
RECURSIVE Messaged(_, _)
Messaged(text, msg) ==
  LET i == indexOf(text, wrapToken(Str_msg), 0)
  IN IF i = -1 THEN text
     ELSE slice(text, 0, i) \o msg
          \o Messaged(slice(text, i + Len(wrapToken(Str_msg)), Len(text)), msg)

\* the layout with the spacing before its first message token normalised
\* and every message token replaced by the message
WithMessage(layout, msg) ==
  LET i == indexOf(layout, wrapToken(Str_msg), 0)
  IN collapseSpaces(slice(layout, 0, i))
     \o Messaged(slice(layout, i, Len(layout)), msg)

MessageCall ==
  /\ EmitCall
  /\ ret'.kind = "string"
  /\ op'.level \in DOMAIN instances[op'.name].levels

MessageTokens(layout) ==
  Cardinality({i \in 0..(Len(layout) - Len(wrapToken(Str_msg))) :
                 slice(layout, i, i + Len(wrapToken(Str_msg)))
                 = wrapToken(Str_msg)})

\* C25: the message of an emitted call appears in the output as it was
\* formatted, at every message token of the layout, whatever follows the
\* token; only the spacing before the message is normalised
C25_MessageVerbatim ==
  [][ MessageCall
      => textOf(op'.name, ret'.lines[1], clock)
         = WithMessage(instances[op'.name].levels[op'.level].layout,
                       ret'.lines[1].msg) ]_vars

\* the same for a layout with one message token and a message without a
\* dollar sign
C25_SingleMessageVerbatim ==
  [][ (MessageCall
       /\ MessageTokens(instances[op'.name].levels[op'.level].layout) = 1
       /\ \A i \in DOMAIN ret'.lines[1].msg : ret'.lines[1].msg[i] # "$")
      => textOf(op'.name, ret'.lines[1], clock)
         = WithMessage(instances[op'.name].levels[op'.level].layout,
                       ret'.lines[1].msg) ]_vars

\* the step is an emitted call on an instance whose layout has a token
\* that resolves to the empty string: a literal '', a function that
\* returns '' in this call, or the name of an instance without a name
EmptyTokenCall ==
  /\ MessageCall
  /\ LET n == instances[op'.name]
     IN \/ n.tokens = <<>> /\ n.optName = Empty
        \/ n.tokens # <<>> /\ n.tokens[1][2] = Literal(<<>>)
        \/ n.tokens # <<>> /\ n.tokens[1][2] = TokenFn /\ op'.fnVal.text = <<>>

\* a layout without its tokens x and name and their inner padding
WithoutTokens(layout) ==
  replace(replace(replace(layout, <<"{", "x", "}">>, <<>>), <<"{", " ", "x", " ", "}">>, <<>>),
          wrapToken(Str_name), <<>>)

\* a layout without its empty tokens, with the message, and with the runs
\* of spaces that the tokens leave collapsed
EmptyCollapsed(layout, msg) ==
  collapseSpaces(replace(WithoutTokens(layout), wrapToken(Str_msg), msg))

\* C26: when a token resolves to the empty string, the output has neither
\* the token nor its inner padding, and no run of spaces where it stood,
\* wherever the token is in the layout
C26_EmptyTokenCollapsed ==
  [][ EmptyTokenCall
      => textOf(op'.name, ret'.lines[1], clock)
         = EmptyCollapsed(instances[op'.name].levels[op'.level].layout,
                          ret'.lines[1].msg) ]_vars

\* the same for a literal '' token and an empty logger name placed before
\* the message, in the class of part_004
C26_EmptyLiteralBeforeMessage ==
  [][ (EmptyTokenCall /\ impl = "part_004"
       /\ (instances[op'.name].tokens # <<>>
           => instances[op'.name].tokens[1][2] = Literal(<<>>))
       /\ startsWith(instances[op'.name].levels[op'.level].layout, <<"{">>)
       /\ ~startsWith(instances[op'.name].levels[op'.level].layout,
                      wrapToken(Str_msg)))
      => textOf(op'.name, ret'.lines[1], clock)
         = EmptyCollapsed(instances[op'.name].levels[op'.level].layout,
                          ret'.lines[1].msg) ]_vars

\* the tokens are in increasing order of start, their ranges do not
\* overlap, and the layout text of each range is the text of the token
InOrderVerbatim(layout, items) ==
  /\ \A k \in DOMAIN items :
       /\ 0 <= items[k].start
       /\ items[k].start < items[k].end
       /\ items[k].end <= Len(layout)
       /\ slice(layout, items[k].start, items[k].end) = items[k].token
  /\ \A k \in 1..(Len(items) - 1) : items[k].end <= items[k + 1].start

\* the positions of the braces that no later brace closes; a brace right
\* after a percent sign can be the x of %x and is not counted
Unclosed(layout) ==
  {i \in 0..(Len(layout) - 1) :
     /\ charAt(layout, i) = "{"
     /\ (i > 0 => charAt(layout, i - 1) # "%")
     /\ \A j \in (i + 1)..(Len(layout) - 1) : charAt(layout, j) # "}"}

\* no token starts at or after the first brace that is not closed
StopsAtUnclosed(layout, items) ==
  Unclosed(layout) # {}
  => \A k \in DOMAIN items : items[k].start < Least(Unclosed(layout))

Ascii(layout) == \A i \in DOMAIN layout : Len(bytesOf(layout[i])) = 1

\* C27: parse returns the tokens of any layout in strictly increasing
\* order of start, with ranges that do not overlap and that hold the text
\* of the token in the layout, and returns no token that starts at or after
\* a brace that nothing closes
C27_TokensInOrderVerbatim ==
  op.call = "parse"
  => /\ InOrderVerbatim(op.layout, ret.items)
     /\ StopsAtUnclosed(op.layout, ret.items)

\* the same for the layouts of ASCII characters
C27_AsciiTokensInOrderVerbatim ==
  (op.call = "parse" /\ Ascii(op.layout))
  => /\ InOrderVerbatim(op.layout, ret.items)
     /\ StopsAtUnclosed(op.layout, ret.items)

\* the lines of a namespace, in the order they have in a list of lines
LinesOf(lines, n) == SelectSeq(lines, LAMBDA line : line.name = n)

\* C28: with a monotonic clock, a flush with orderBy 'time' and a flush
\* without orderBy output the buffered entries in the order of their log
\* calls, which is the order they were appended to the buffer in; a flush
\* with orderBy 'name' keeps that order among the entries of a namespace
C28_FlushInCallOrder ==
  [][ (op'.call = "flush" /\ buffer # <<>>)
      => /\ op'.orderBy \in {"time", "undefined"}
            => ret'.lines = outputs(buffer)
         /\ op'.orderBy = "name"
            => \A n \in {Str_ax, Str_bx} :
                 LinesOf(ret'.lines, n) = LinesOf(outputs(buffer), n) ]_vars

\* a flush by time of two entries of one timestamp, the one of the
\* namespace that sorts last logged first
C28_Witness ==
  /\ op.call = "flush"
  /\ op.orderBy = "time"
  /\ clock = 0
  /\ Len(ret.lines) = 2
  /\ ret.lines[1].name = Str_bx
  /\ ret.lines[2].name = Str_ax

\* the step is a construction without a name that returns an instance
UnnamedConstruction ==
  /\ op'.call = "new"
  /\ op'.options.name = Empty
  /\ ret'.kind = "instance"

\* the instance returned is a new one, registered under a new namespace,
\* and nothing is warned
NewInstanceReturned ==
  /\ op'.name \notin DOMAIN instances
  /\ \A n \in DOMAIN instances : instances[n].id # ret'.id
  /\ op'.name \in DOMAIN instances'
  /\ instances'[op'.name].id = ret'.id
  /\ warned' = 0

\* C29: a construction without a name returns a new instance, distinct
\* from every registered one, registered under a namespace not used
\* before, and does not warn, whatever instances were constructed before
C29_UnnamedAlwaysNew ==
  [][ UnnamedConstruction => NewInstanceReturned ]_vars

\* the same while no instance was constructed with a name of the form the
\* automatic names have
C29_UnnamedNewWithoutAutoNames ==
  [][ (UnnamedConstruction
       /\ \A n \in DOMAIN instances : instances[n].optName # Str_log1)
      => NewInstanceReturned ]_vars

\* the step is a constructor call that throws the TypeError of maxBuffer
ThrowingConstruction == op'.call = "new" /\ ret' = TypeError

\* C30: a constructor call that throws the TypeError of maxBuffer leaves
\* the registry, the disabled set, the global maxBuffer, the order of the
\* automatic flush and the buffer as they were, and registers no instance
\* for the namespace
C30_ThrowLeavesStateUnchanged ==
  [][ ThrowingConstruction
      => /\ UNCHANGED <<instances, disabled, maxBuffer, flushOrderBy, buffer>>
         /\ op'.name \notin DOMAIN instances' ]_vars

\* the same without the disabled set
C30_ThrowLeavesRegistryAndBuffer ==
  [][ ThrowingConstruction
      => /\ UNCHANGED <<instances, maxBuffer, flushOrderBy, buffer>>
         /\ op'.name \notin DOMAIN instances' ]_vars

\* a throwing construction of an instance that is not to be disabled
\* leaves the disabled set as it was
C30_ThrowOfEnabledLeavesDisabled ==
  [][ (ThrowingConstruction /\ op'.options.enabled # "false")
      => UNCHANGED disabled ]_vars


\* C16: peek(name) leaves the buffer, the sequence counter, the disabled
\* patterns and the timer as they are, writes nothing, and returns the
\* outputs of exactly the buffered entries of namespace name, in buffer
\* order ('' when there are none); a flush after it gives what it would
\* have given before it
C16_PeekReadsOnly ==
  [][ op'.call = "peek" =>
        /\ buffer' = buffer
        /\ seqBuffer' = seqBuffer
        /\ disabled' = disabled
        /\ lastTime' = lastTime
        /\ maxBuffer' = maxBuffer
        /\ out' = <<>>
        /\ \A orderBy \in {"undefined", "time", "name"} :
             flushList(orderBy, buffer') = flushList(orderBy, buffer)
        /\ (op'.name # Empty =>
              /\ ret'.kind = "string"
              /\ \E keep \in SUBSET DOMAIN buffer :
                   /\ keep = {i \in DOMAIN buffer : buffer[i].name = op'.name}
                   /\ Len(ret'.lines) = Cardinality(keep)
                   /\ \A k \in 1..Len(ret'.lines) :
                        \E i \in keep :
                          /\ Cardinality({j \in keep : j <= i}) = k
                          /\ ret'.lines[k] = buffer[i].output) ]_vars

\* a peek that returns one of two buffered entries
C16_Witness ==
  /\ op.call = "peek"
  /\ Len(buffer) = 2
  /\ buffer[1].name = Str_bx
  /\ buffer[2].name = Str_ax
  /\ ret = StringOf(<<buffer[2].output>>, TRUE)

\* C17: entries get strictly increasing sequence numbers in the order of
\* their calls, whatever the instance: the buffered ones are in increasing
\* order and below the counter, a new entry takes a number no entry before
\* it had, and flush, peek and constructor calls leave the counter alone
C17_SeqStrictlyIncreases ==
  [][ /\ seqBuffer' >= seqBuffer
      /\ \A i \in DOMAIN buffer' : buffer'[i].seq < seqBuffer'
      /\ \A i, j \in DOMAIN buffer' :
           i < j => buffer'[i].seq < buffer'[j].seq
      /\ \A i \in DOMAIN buffer' :
           buffer'[i] \notin Range(buffer) => buffer'[i].seq >= seqBuffer
      /\ (op'.call \in {"flush", "peek", "new"} => seqBuffer' = seqBuffer)
      /\ \A i \in DOMAIN buffer : buffer[i].seq < seqBuffer ]_vars

\* an entry appended after a flush continues the numbering
C17_Witness ==
  /\ op.call = "log"
  /\ flushed > 0
  /\ Len(buffer) = 1
  /\ buffer[1].seq = flushed
  /\ seqBuffer = flushed + 1

\* C18: flush returns the output with its styling unless colored: false is
\* passed
C18_ColoredByDefault ==
  (op.call = "flush" /\ op.colored # "false" /\ ret.kind = "string")
    => ret.styled

====
